---- MODULE Spec2Model ----
(***************************************************************************)
(* Progressive columnar data pipeline of siqc: the client facade           *)
(* (DataLoader) and its decompression worker, as a state machine.          *)
(*                                                                         *)
(* The repository holds two builds of the loader:                          *)
(*   "module": src/lib/data-loader.ts with the module worker               *)
(*             src/lib/loader.worker.ts;                                   *)
(*   "inline": the DataLoader of src/lib/progressive-data-adapter.ts with  *)
(*             the worker it embeds as a blob (createInlineWorker).        *)
(* The variable `variant` fixes which one a behaviour runs.                *)
(*                                                                         *)
(* The main thread runs to completion: one action is one task (a call of   *)
(* a public method up to its first real suspension, or the dispatch of one *)
(* worker message with every promise continuation it wakes).  The worker   *)
(* handles messages in order, but its async handler suspends while gzip    *)
(* decompression is reading, so handlers of later messages interleave.     *)
(***************************************************************************)
EXTENDS Integers, Sequences, FiniteSets, TLC

\* Number of calls of the facade's public methods (init, loadColumn,
\* loadCategory, destroy) in one behaviour.
MaxCalls == 4

\* Number of Worker objects created in one behaviour.
MaxWorkers == 2

Variants == {"module", "inline"}

\* Text content of the document's #payload element: absent, a well-formed
\* payload, or one whose gzip stream is corrupt.
Payloads == {"", "good", "corrupt"}

\* header.columns of the good payload (DataHeader.columns / ColumnInfo).  The
\* column of category "c" carries a dtype tag no reader of this repository
\* knows.
HeaderColumns ==
    {[name |-> "x", categoryKey |-> "a", dtype |-> "float32"],
     [name |-> "z", categoryKey |-> "a", dtype |-> "int32"],
     [name |-> "y", categoryKey |-> "b", dtype |-> "int32"],
     [name |-> "sample_id", categoryKey |-> "c", dtype |-> "string"]}

\* The gzip decompressors a worker may find: the native DecompressionStream
\* and the pako library (a dynamic import).
Decompressors == {"DecompressionStream", "pako"}

\* Arguments the application passes to loadColumn / loadCategory.  "q" is a
\* column the header does not have; "a:x" is a category key the header does
\* not have and which reads like the cache key of column x of category a.
ColumnNames == {"x", "q"}
ColumnCategories == {"a"}
CategoryKeys == {"a", "a:x"}

VARIABLES
    variant,          \* which build runs
    document,         \* text of the #payload element
    worker,           \* DataLoader.worker: 0 is null, else a worker id
    header,           \* DataLoader.header: FALSE is null
    columnCache,      \* DataLoader.columnCache: cacheKey -> ArrayBuffer
    categoryCache,    \* DataLoader.categoryCache: categoryKey -> buffers
    pendingRequests,  \* DataLoader.pendingRequests: key -> promise (its call)
    calls,            \* every call made so far, with the state of its promise
    batches,          \* the promises a batch call combines, and its results
    workers,          \* the Worker objects created so far, by id
    decompressors,    \* the decompressors available in the worker's browser
    input,            \* packer: the arguments of packColumnaryBinary
    container,        \* packer: the container it built (before gzip / base64)
    output,           \* reader: what the last read of the container gave
    files,            \* cli: qc-report-payload.bin of each directory
    reports,          \* cli: the render runs made, with what each embedded
    qc,               \* the arguments and results of the two QC counts
    viewport          \* a viewport loader: its signals and its invocations

vars == <<variant, document, worker, header, columnCache, categoryCache,
          pendingRequests, calls, batches, workers, decompressors,
          input, container, output, files, reports, qc, viewport>>

----------------------------------------------------------------------------
(* The loader runs with the packer idle: nothing packed, nothing read. *)

NoInput == [data |-> <<>>, structure |-> <<>>]

NoContainer == [kind |-> "none"]

\* Nothing rendered, nothing counted, no viewport loader created.
NoQc == [kind |-> "none"]

NoViewport == [kind |-> "none"]

\* The directories a render run reads from and writes to, and a directory
\* without qc-report-payload.bin.
Directories == {"data", "out"}

NoFile == [kind |-> "none"]

ToolsIdle ==
    /\ files = [dir \in Directories |-> NoFile]
    /\ reports = <<>>
    /\ qc = NoQc
    /\ viewport = NoViewport

NoOutput == [kind |-> "none"]

----------------------------------------------------------------------------
(* Maps (JavaScript Map) as functions on the set of their keys. *)

EmptyMap == [k \in {} |-> 0]

MapHas(m, k) == k \in DOMAIN m

MapSet(m, k, v) == [x \in DOMAIN m \cup {k} |-> IF x = k THEN v ELSE m[x]]

MapDelete(m, k) == [x \in DOMAIN m \ {k} |-> m[x]]

----------------------------------------------------------------------------
(* Values that cross the thread boundary. *)

\* An ArrayBuffer holding a copy of one column, made to answer request `rid`.
ColumnBuffer(rid, cat, name) ==
    [kind |-> "ArrayBuffer", id |-> rid, categoryKey |-> cat, columnName |-> name,
     entries |-> EmptyMap]

\* The object { columnName: ArrayBuffer } made to answer category request `rid`.
CategoryBuffers(rid, cat, entries) ==
    [kind |-> "Object", id |-> rid, categoryKey |-> cat, columnName |-> "",
     entries |-> entries]

\* The worker's decompressed buffer itself (cache.buffer), the one stored by
\* the handler of request b.
SourceBuffer(b) ==
    [kind |-> "Source", id |-> b, categoryKey |-> "", columnName |-> "",
     entries |-> EmptyMap]

\* A buffer a typed-array constructor allocates itself (zero elements).
OwnBuffer(c) ==
    [kind |-> "Own", id |-> c, categoryKey |-> "", columnName |-> "",
     entries |-> EmptyMap]

NoData ==
    [kind |-> "none", id |-> 0, categoryKey |-> "", columnName |-> "",
     entries |-> EmptyMap]

\* WorkerMessage; `id` names the call that posted it (not read by the code).
Message(type, name, cat, payload, id) ==
    [type |-> type, columnName |-> name, categoryKey |-> cat,
     payload |-> payload, id |-> id]

\* WorkerResponse; `header` is whether the header field is set.
Response(type, hdr, name, cat, data, id) ==
    [type |-> type, header |-> hdr, columnName |-> name, categoryKey |-> cat,
     data |-> data, id |-> id]

\* `${categoryKey}:${columnName}`
cacheKey(categoryKey, columnName) == categoryKey \o ":" \o columnName

----------------------------------------------------------------------------
(* The state the operations act on, as one record. *)

State ==
    [worker |-> worker, header |-> header, columnCache |-> columnCache,
     categoryCache |-> categoryCache, pendingRequests |-> pendingRequests,
     calls |-> calls, batches |-> batches, workers |-> workers]

Becomes(s) ==
    /\ worker' = s.worker
    /\ header' = s.header
    /\ columnCache' = s.columnCache
    /\ categoryCache' = s.categoryCache
    /\ pendingRequests' = s.pendingRequests
    /\ calls' = s.calls
    /\ batches' = s.batches
    /\ workers' = s.workers
    /\ UNCHANGED <<variant, document, decompressors, input, container, output,
                   files, reports, qc, viewport>>

\* new Worker(...): a worker with an empty module-level cache.
NewWorker ==
    [alive |-> TRUE, payload |-> "", buffer |-> 0, header |-> FALSE,
     inbox |-> <<>>, running |-> {}, outbox |-> <<>>, listeners |-> <<>>,
     decompressions |-> 0]

\* One call of a public async method and the promise it returned.
\*   st     "pending" | "resolved" | "rejected"
\*   phase  where the call is suspended ("" when it is not)
\*   awaits the call whose request promise this call awaits (0: none)
\*   w      the worker the call created (init) or posted to (load), 0: none
\*   res    what the promise resolved with
\*   answered  a response to a message of this call has been dispatched
\*             (history, not read by the code)
Call(op, name, cat, st, phase, awaits, w, res) ==
    [op |-> op, columnName |-> name, categoryKey |-> cat, st |-> st,
     phase |-> phase, awaits |-> awaits, w |-> w, res |-> res,
     answered |-> FALSE]

NoResult == [obj |-> 0, data |-> NoData]

postMessage(s, w, msg) ==
    IF s.workers[w].alive
    THEN [s EXCEPT !.workers[w].inbox = Append(@, msg)]
    ELSE s

addEventListener(s, w, l) ==
    [s EXCEPT !.workers[w].listeners = Append(@, l)]

Listener(kind, c, name, cat) ==
    [kind |-> kind, call |-> c, columnName |-> name, categoryKey |-> cat]

----------------------------------------------------------------------------

(* DataLoader: typed results *)

findColumn(columnName, categoryKey) ==
    {col \in HeaderColumns :
        col.name = columnName /\ col.categoryKey = categoryKey}

SupportedDtypes == {"int32", "categorical", "float32"}

Throw == [ok |-> FALSE, res |-> NoResult]

Return(v) == [ok |-> TRUE, res |-> v]

\* new Int32Array(arg) / new Float32Array(arg) made by call c: a view on arg
\* when arg is an ArrayBuffer; for any other object an array of
\* arg.length (undefined, so 0) elements over a buffer of its own.
TypedArray(arg, c) ==
    IF arg.kind = "ArrayBuffer"
    THEN [obj |-> c, data |-> arg]
    ELSE [obj |-> c, data |-> OwnBuffer(c)]

bufferToTypedColumn(hdr, buffer, columnName, categoryKey, c) ==
    IF ~hdr THEN Throw
    ELSE IF findColumn(columnName, categoryKey) = {} THEN Throw
    ELSE IF \A col \in findColumn(columnName, categoryKey) :
                col.dtype \in SupportedDtypes
         THEN Return(TypedArray(buffer, c))
         ELSE Throw

\* Object.entries(buffers): the columns of a category response; none for an
\* ArrayBuffer, which has no own enumerable properties.
Entries(buffers) ==
    IF buffers.kind = "Object" THEN DOMAIN buffers.entries ELSE {}

buffersToTypedCategory(hdr, buffers, categoryKey, c) ==
    IF \A name \in Entries(buffers) :
          bufferToTypedColumn(hdr, buffers.entries[name],
                              name, categoryKey, c).ok
    THEN Return([obj |-> c,
                 data |-> IF Entries(buffers) = {} THEN OwnBuffer(c)
                          ELSE buffers])
    ELSE Throw

\* The result a load call of kind `op` builds from what its request promise
\* resolved with.
Typed(op, hdr, data, columnName, categoryKey, c) ==
    IF op = "loadColumn"
    THEN bufferToTypedColumn(hdr, data, columnName, categoryKey, c)
    ELSE buffersToTypedCategory(hdr, data, categoryKey, c)

Settle(call, r) ==
    [call EXCEPT !.st = IF r.ok THEN "resolved" ELSE "rejected",
                 !.phase = "", !.res = r.res]

----------------------------------------------------------------------------
(* DataLoader.init *)

\* The rest of init() once the worker exists: this.worker = ..., read the
\* payload element, register the payload listener, post setPayload.
initSendPayload(s, c) ==
    LET s1 == [s EXCEPT !.worker = c] IN
    IF document = ""
    THEN [s1 EXCEPT !.calls[c] = Settle(@, Throw)]
    ELSE LET s2 == addEventListener(s1, c, Listener("payload", c, "", ""))
             s3 == postMessage(s2, c, Message("setPayload", "", "", document, c))
         IN [s3 EXCEPT !.calls[c].phase = "payload"]

\* init() with its first statement, `if (this.header) return`, taken out.
initWithoutHeaderCheck(s, c) ==
    LET s1 == [s EXCEPT
                 !.workers = MapSet(@, c, NewWorker),
                 !.calls = Append(@,
                     Call("init", "", "", "pending", "create", 0, c, NoResult))]
    IN IF variant = "module" THEN initSendPayload(s1, c) ELSE s1

\* init() up to its first suspension, as call number c.
init(s, c) ==
    IF s.header
    THEN [s EXCEPT !.calls = Append(@,
             Call("init", "", "", "resolved", "", 0, 0, NoResult))]
    ELSE LET s1 == [s EXCEPT
                      !.workers = MapSet(@, c, NewWorker),
                      !.calls = Append(@,
                          Call("init", "", "", "pending", "create", 0, c, NoResult))]
         IN IF variant = "module" THEN initSendPayload(s1, c) ELSE s1

\* init() after `await payloadPromise`: register the header listener and
\* post loadHeader to whatever this.worker is now.
initRequestHeader(s, c) ==
    IF s.worker = 0
    THEN [s EXCEPT !.calls[c] = Settle(@, Throw)]
    ELSE LET s1 == addEventListener(s, s.worker, Listener("header", c, "", ""))
             s2 == postMessage(s1, s.worker, Message("loadHeader", "", "", "", c))
         IN [s2 EXCEPT !.calls[c].phase = "header"]

\* init() after `await headerPromise`.
initStoreHeader(s, c) ==
    [s EXCEPT !.header = TRUE, !.calls[c] = Settle(@, Return(NoResult))]

----------------------------------------------------------------------------
(* DataLoader.loadColumn / loadCategory *)

notInitialized(s) == s.worker = 0 \/ ~s.header

\* loadColumn(columnName, categoryKey) up to its first suspension.
loadColumn(s, c, columnName, categoryKey) ==
    LET key == cacheKey(categoryKey, columnName)
        new(st, phase, awaits, w, res) ==
            Call("loadColumn", columnName, categoryKey, st, phase, awaits, w, res)
    IN
    IF notInitialized(s)
    THEN [s EXCEPT !.calls = Append(@, new("rejected", "", 0, 0, NoResult))]
    ELSE IF MapHas(s.columnCache, key)
    THEN LET r == bufferToTypedColumn(s.header, s.columnCache[key],
                                      columnName, categoryKey, c)
         IN [s EXCEPT !.calls = Append(@,
                new(IF r.ok THEN "resolved" ELSE "rejected", "", 0, 0, r.res))]
    ELSE IF MapHas(s.pendingRequests, key)
    THEN [s EXCEPT !.calls = Append(@,
             new("pending", "request", s.pendingRequests[key], 0, NoResult))]
    ELSE LET s1 == addEventListener(s, s.worker,
                       Listener("column", c, columnName, categoryKey))
             s2 == postMessage(s1, s.worker,
                       Message("loadColumn", columnName, categoryKey, "", c))
         IN [s2 EXCEPT
                !.pendingRequests = MapSet(@, key, c),
                !.calls = Append(@,
                    new("pending", "request", c, s.worker, NoResult))]

\* loadCategory(categoryKey) up to its first suspension.
loadCategory(s, c, categoryKey) ==
    LET new(st, phase, awaits, w, res) ==
            Call("loadCategory", "", categoryKey, st, phase, awaits, w, res)
    IN
    IF notInitialized(s)
    THEN [s EXCEPT !.calls = Append(@, new("rejected", "", 0, 0, NoResult))]
    ELSE IF MapHas(s.categoryCache, categoryKey)
    THEN LET r == buffersToTypedCategory(s.header, s.categoryCache[categoryKey],
                                         categoryKey, c)
         IN [s EXCEPT !.calls = Append(@,
                new(IF r.ok THEN "resolved" ELSE "rejected", "", 0, 0, r.res))]
    ELSE IF MapHas(s.pendingRequests, categoryKey)
    THEN [s EXCEPT !.calls = Append(@,
             new("pending", "request", s.pendingRequests[categoryKey], 0, NoResult))]
    ELSE LET s1 == addEventListener(s, s.worker,
                       Listener("category", c, "", categoryKey))
             s2 == postMessage(s1, s.worker,
                       Message("loadCategory", "", categoryKey, "", c))
         IN [s2 EXCEPT
                !.pendingRequests = MapSet(@, categoryKey, c),
                !.calls = Append(@,
                    new("pending", "request", c, s.worker, NoResult))]

\* The key under which call c's request sits in pendingRequests.
requestKey(call) ==
    IF call.op = "loadColumn"
    THEN cacheKey(call.categoryKey, call.columnName)
    ELSE call.categoryKey

\* The calls that wait on request promise p without owning it resume once it
\* has settled: the `await this.pendingRequests.get(key)` branches.
resumeWaiters(s, p, ok, data) ==
    [s EXCEPT !.calls =
        [i \in DOMAIN @ |->
            IF i # p /\ @[i].st = "pending" /\ @[i].awaits = p
            THEN Settle(@[i],
                    IF ok
                    THEN Typed(@[i].op, s.header, data,
                               @[i].columnName, @[i].categoryKey, i)
                    ELSE Throw)
            ELSE @[i]]]

\* The try / catch after `await promise` with the cache written in the catch
\* branch as well: whatever the request settled with is stored under its key.
requestSettledCachingFailures(s, p, ok, data) ==
    LET call == s.calls[p]
        key == requestKey(call)
        cached == IF call.op = "loadColumn"
                  THEN [s EXCEPT !.columnCache = MapSet(@, key, data)]
                  ELSE [s EXCEPT !.categoryCache = MapSet(@, key, data)]
        s1 == [cached EXCEPT
                 !.pendingRequests = MapDelete(@, key),
                 !.calls[p] = Settle(@,
                     IF ok THEN Typed(call.op, s.header, data,
                                      call.columnName, call.categoryKey, p)
                     ELSE Throw)]
    IN resumeWaiters(s1, p, ok, data)

\* The try / catch after `await promise` in the call p that posted the
\* request, followed by the calls waiting on the same promise.
requestSettled(s, p, ok, data) ==
    LET call == s.calls[p]
        key == requestKey(call)
        s1 == IF ~ok
              THEN [s EXCEPT !.pendingRequests = MapDelete(@, key),
                             !.calls[p] = Settle(@, Throw)]
              ELSE LET cached ==
                         IF call.op = "loadColumn"
                         THEN [s EXCEPT !.columnCache = MapSet(@, key, data)]
                         ELSE [s EXCEPT !.categoryCache = MapSet(@, key, data)]
                   IN [cached EXCEPT
                         !.pendingRequests = MapDelete(@, key),
                         !.calls[p] = Settle(@,
                             Typed(call.op, s.header, data,
                                   call.columnName, call.categoryKey, p))]
    IN resumeWaiters(s1, p, ok, data)

----------------------------------------------------------------------------
(* DataLoader.destroy *)

\* Worker.terminate(): the worker stops; its memory, the messages queued in
\* either direction and the listeners of the dead Worker object are gone.
\* The count of decompressions it ran is kept as history.
terminate(s, w) ==
    [s EXCEPT !.workers[w] =
        [NewWorker EXCEPT !.alive = FALSE,
                          !.decompressions = s.workers[w].decompressions]]

\* destroy(); the call is recorded like the others (it returns at once).
destroy(s) ==
    LET s1 == IF s.worker # 0 THEN terminate(s, s.worker) ELSE s
    IN [s1 EXCEPT !.worker = 0, !.header = FALSE,
                  !.columnCache = EmptyMap, !.categoryCache = EmptyMap,
                  !.pendingRequests = EmptyMap,
                  !.calls = Append(@,
                      Call("destroy", "", "", "resolved", "", 0, 0, NoResult))]

----------------------------------------------------------------------------

(* The worker: loader.worker.ts, and the worker code of createInlineWorker *)

respond(s, w, resp) ==
    [s EXCEPT !.workers[w].outbox = Append(@, resp)]

\* The catch clause of the message handler.  In loader.worker.ts columnName
\* and categoryKey are declared by a const inside the try block and are not
\* in scope in the catch block: building the error response throws a
\* ReferenceError and nothing is posted.  The inline worker destructures
\* before the try and posts the error with both names.
fail(s, w, msg) ==
    IF variant = "module"
    THEN s
    ELSE respond(s, w, Response("error", FALSE, msg.columnName,
                                msg.categoryKey, NoData, msg.id))

\* The dtype switch with a default branch that guesses instead of throwing.
extractableWhateverDtype(cols) == TRUE

\* extractColumn for every column in cols: the lookup already succeeded, the
\* dtype switch throws on a tag it does not know.
extractable(cols) == \A col \in cols : col.dtype \in SupportedDtypes

\* extractColumn with the copy left out: the buffer of the view on the
\* column's bytes, which is the decompressed buffer itself.
extractColumnView(buffer, column, rid) == SourceBuffer(buffer)

\* extractColumn for the descriptor found: `new Int32Array(view).buffer`, a
\* new ArrayBuffer holding a copy of the column's bytes, made for request rid.
extractColumn(buffer, column, rid) ==
    ColumnBuffer(rid, column.categoryKey, column.name)

\* extractCategory without the filter on categoryKey: every column of the
\* header.
extractCategoryUnfiltered(buffer, categoryKey, rid) ==
    CategoryBuffers(rid, categoryKey,
        [name \in {col.name : col \in HeaderColumns} |->
            extractColumn(buffer,
                CHOOSE col \in HeaderColumns : col.name = name, rid)])

\* extractCategory (and the loadCategory branch of the inline worker): one
\* entry per descriptor whose categoryKey is the one asked for.
extractCategory(buffer, categoryKey, rid) ==
    LET categoryColumns ==
            {col \in HeaderColumns : col.categoryKey = categoryKey}
    IN CategoryBuffers(rid, categoryKey,
           [name \in {col.name : col \in categoryColumns} |->
               extractColumn(buffer,
                   CHOOSE col \in categoryColumns : col.name = name, rid)])

\* The handler of msg from the point where the decompressed buffer is at
\* hand: parse the header, extract, post the response.
serve(s, w, msg) ==
    LET s1 == IF variant = "module" \/ msg.type = "setPayload"
              THEN [s EXCEPT !.workers[w].header = TRUE]
              ELSE s
        col == findColumn(msg.columnName, msg.categoryKey)
        cat == {k \in HeaderColumns : k.categoryKey = msg.categoryKey}
    IN
    CASE msg.type \in {"setPayload", "loadHeader"} ->
            respond(s1, w, Response("header", TRUE, "", "", NoData, msg.id))
      [] msg.type = "loadColumn" ->
            IF col # {} /\ extractable(col)
            THEN respond(s1, w,
                    Response("columnData", FALSE, msg.columnName, msg.categoryKey,
                        extractColumn(s.workers[w].buffer,
                                      CHOOSE c \in col : TRUE, msg.id),
                        msg.id))
            ELSE fail(s1, w, msg)
      [] OTHER ->
            IF cat # {} /\ extractable(cat)
            THEN respond(s1, w,
                    Response("categoryData", FALSE, "", msg.categoryKey,
                        extractCategory(s.workers[w].buffer, msg.categoryKey,
                                        msg.id),
                        msg.id))
            ELSE fail(s1, w, msg)

\* loadPayload(base64Data) up to its first real suspension: the cached buffer
\* when there is one, else base64-decode and start gzip decompression, whose
\* `await reader.read()` (or `await import('pako')`) lets the handlers of
\* later messages run before cache.buffer is assigned.  Without
\* DecompressionStream the inline worker throws at once; loader.worker.ts
\* goes on to import pako.
loadPayload(s, w, msg, base64Data) ==
    IF s.workers[w].buffer # 0 THEN serve(s, w, msg)
    ELSE IF base64Data = "" THEN fail(s, w, msg)
    ELSE IF variant = "inline" /\ "DecompressionStream" \notin decompressors
    THEN fail(s, w, msg)
    ELSE [s EXCEPT
            !.workers[w].running =
                @ \cup {[msg |-> msg, base64Data |-> base64Data]},
            !.workers[w].decompressions = @ + 1]

\* A loadHeader / loadColumn / loadCategory branch of the handler.
request(s, w, msg) ==
    IF s.workers[w].payload = ""
    THEN fail(s, w, msg)
    ELSE loadPayload(s, w, msg, s.workers[w].payload)

\* self.onmessage of loader.worker.ts for the next message of the inbox.
onmessageModule(s, w, msg) ==
    IF msg.type = "setPayload" /\ msg.payload # ""
    THEN respond([s EXCEPT !.workers[w].payload = msg.payload], w,
                 Response("header", FALSE, "", "", NoData, msg.id))
    ELSE IF msg.type = "loadHeader"
    THEN request(s, w, msg)
    ELSE IF msg.type = "loadColumn" /\ msg.columnName # "" /\ msg.categoryKey # ""
    THEN request(s, w, msg)
    ELSE IF msg.type = "loadCategory" /\ msg.categoryKey # ""
    THEN request(s, w, msg)
    ELSE fail(s, w, msg)

\* The message listener of the inline worker.
onmessageInline(s, w, msg) ==
    IF msg.type = "setPayload"
    THEN loadPayload([s EXCEPT !.workers[w].payload = msg.payload],
                     w, msg, msg.payload)
    ELSE IF msg.type \in {"loadHeader", "loadColumn", "loadCategory"}
    THEN request(s, w, msg)
    ELSE fail(s, w, msg)

onmessage(s, w) ==
    LET msg == Head(s.workers[w].inbox)
        s1 == [s EXCEPT !.workers[w].inbox = Tail(@)]
    IN IF variant = "module"
       THEN onmessageModule(s1, w, msg)
       ELSE onmessageInline(s1, w, msg)

\* The rest of loadPayload in the suspended handler h: the stream has been
\* read or pako imported and run (or either has failed on a corrupt gzip
\* stream, or the import has failed); store the new buffer in cache.buffer
\* and go on with the request.
decompressed(s, w, h) ==
    LET s1 == [s EXCEPT !.workers[w].running = @ \ {h}] IN
    IF h.base64Data = "corrupt" \/ decompressors = {}
    THEN fail(s1, w, h.msg)
    ELSE LET s2 == [s1 EXCEPT !.workers[w].buffer = h.msg.id]
             s3 == IF variant = "inline"
                   THEN [s2 EXCEPT !.workers[w].payload = h.base64Data]
                   ELSE s2
         IN serve(s3, w, h.msg)

----------------------------------------------------------------------------
(* Dispatch of a worker response on the main thread *)

\* What listener l does with response e: "resolve", "reject" or "" (ignore).
\* Only the inline build compares the names of an error response.
handleMessage(l, e) ==
    LET sameColumn == e.columnName = l.columnName /\ e.categoryKey = l.categoryKey
        sameCategory == e.categoryKey = l.categoryKey
    IN
    CASE l.kind = "payload" ->
            IF e.type = "header" THEN "resolve"
            ELSE IF e.type = "error" THEN "reject" ELSE ""
      [] l.kind = "header" ->
            IF e.type = "header" /\ e.header THEN "resolve"
            ELSE IF e.type = "error" THEN "reject" ELSE ""
      [] l.kind = "column" ->
            IF e.type = "columnData" /\ sameColumn THEN "resolve"
            ELSE IF e.type = "error" /\ (variant = "module" \/ sameColumn)
            THEN "reject" ELSE ""
      [] OTHER ->
            IF e.type = "categoryData" /\ sameCategory THEN "resolve"
            ELSE IF e.type = "error" /\ (variant = "module" \/ sameCategory)
            THEN "reject" ELSE ""

\* A listener that acts first calls this.worker!.removeEventListener: with
\* this.worker null that throws and the promise is left alone.
outcome(s, l, e) == IF s.worker = 0 THEN "" ELSE handleMessage(l, e)

\* The promise listener l settles is still pending.
awaited(s, l) ==
    /\ s.calls[l.call].st = "pending"
    /\ s.calls[l.call].phase =
          IF l.kind \in {"payload", "header"} THEN l.kind ELSE "request"

\* The continuation woken by listener l after response e.
continue(s, l, e) ==
    LET o == outcome(s, l, e) IN
    IF o = "" \/ ~awaited(s, l) THEN s
    ELSE IF l.kind = "payload"
    THEN IF o = "resolve" THEN initRequestHeader(s, l.call)
         ELSE [s EXCEPT !.calls[l.call] = Settle(@, Throw)]
    ELSE IF l.kind = "header"
    THEN IF o = "resolve" THEN initStoreHeader(s, l.call)
         ELSE [s EXCEPT !.calls[l.call] = Settle(@, Throw)]
    ELSE requestSettled(s, l.call, o = "resolve", e.data)

RECURSIVE continueAll(_, _, _)
continueAll(s, ls, e) ==
    IF ls = <<>> THEN s
    ELSE continueAll(continue(s, Head(ls), e), Tail(ls), e)

RECURSIVE removeActed(_, _, _)
removeActed(s, ls, e) ==
    IF ls = <<>> THEN <<>>
    ELSE IF outcome(s, Head(ls), e) # ""
         THEN removeActed(s, Tail(ls), e)
         ELSE <<Head(ls)>> \o removeActed(s, Tail(ls), e)

\* One message event of worker w: every listener registered on w sees the
\* response, a listener that acts removes itself from this.worker, then the
\* continuations of the promises settled run in order.
dispatch(s, w) ==
    LET e == Head(s.workers[w].outbox)
        ls == s.workers[w].listeners
        s1 == [s EXCEPT !.workers[w].outbox = Tail(@),
                        !.workers[w].listeners =
                            IF s.worker = w THEN removeActed(s, ls, e) ELSE @,
                        !.calls[e.id].answered = TRUE]
    IN continueAll(s1, ls, e)

----------------------------------------------------------------------------
(* Actions *)

\* A microtask of the main thread is waiting: an init() suspended at
\* `await this.createInlineWorker()`.  No message event is dispatched before
\* it has run.
microtaskPending == \E i \in DOMAIN calls : calls[i].phase = "create"

CallInit ==
    /\ Len(calls) < MaxCalls
    /\ header \/ Cardinality(DOMAIN workers) < MaxWorkers
    /\ Becomes(init(State, Len(calls) + 1))

ResumeInit ==
    \E c \in DOMAIN calls :
        /\ calls[c].phase = "create"
        /\ Becomes(initSendPayload(State, c))

CallLoadColumn ==
    /\ Len(calls) < MaxCalls
    /\ \E name \in ColumnNames, cat \in ColumnCategories :
          Becomes(loadColumn(State, Len(calls) + 1, name, cat))

CallLoadCategory ==
    /\ Len(calls) < MaxCalls
    /\ \E cat \in CategoryKeys :
          Becomes(loadCategory(State, Len(calls) + 1, cat))

CallDestroy ==
    /\ Len(calls) < MaxCalls
    /\ Becomes(destroy(State))

WorkerReceive ==
    \E w \in DOMAIN workers :
        /\ workers[w].alive
        /\ workers[w].inbox # <<>>
        /\ Becomes(onmessage(State, w))

WorkerDecompressed ==
    \E w \in DOMAIN workers :
        /\ workers[w].alive
        /\ \E h \in workers[w].running : Becomes(decompressed(State, w, h))

Dispatch ==
    /\ ~microtaskPending
    /\ \E w \in DOMAIN workers :
          /\ workers[w].alive
          /\ workers[w].outbox # <<>>
          /\ Becomes(dispatch(State, w))

Init ==
    /\ variant \in Variants
    /\ document \in Payloads
    /\ worker = 0
    /\ header = FALSE
    /\ columnCache = EmptyMap
    /\ categoryCache = EmptyMap
    /\ pendingRequests = EmptyMap
    /\ calls = <<>>
    /\ batches = EmptyMap
    /\ workers = EmptyMap
    /\ decompressors = Decompressors
    /\ input = NoInput
    /\ container = NoContainer
    /\ output = NoOutput
    /\ ToolsIdle

Next ==
    \/ CallInit
    \/ ResumeInit
    \/ CallLoadColumn
    \/ CallLoadCategory
    \/ CallDestroy
    \/ WorkerReceive
    \/ WorkerDecompressed
    \/ Dispatch

Spec == Init /\ [][Next]_vars

\* The same loader under the scheduling of the browser: a message posted to
\* a live worker is handled, a decompression that runs ends, a response
\* posted is dispatched and a pending microtask runs.
SpecLive ==
    /\ Init
    /\ [][Next]_vars
    /\ WF_vars(ResumeInit)
    /\ WF_vars(WorkerReceive)
    /\ WF_vars(WorkerDecompressed)
    /\ WF_vars(Dispatch)

----------------------------------------------------------------------------
(* The worker on its own: any client, any browser *)

\* Number of messages posted to the worker in one behaviour.
MaxMessages == 3

\* The messages a client may post (WorkerMessage).  Column sample_id of
\* category c has an unknown dtype tag; column q and category zz are not in
\* the header.
WorkerMessages ==
    {Message("setPayload", "", "", p, 0) : p \in Payloads}
    \cup {Message("loadHeader", "", "", "", 0)}
    \cup {Message("loadColumn", name, cat, "", 0) :
             <<name, cat>> \in {<<"x", "a">>, <<"q", "a">>, <<"sample_id", "c">>}}
    \cup {Message("loadCategory", "", cat, "", 0) : cat \in {"a", "zz"}}

\* worker.postMessage(msg) by a client that is not the facade; the post is
\* recorded in `calls`, whose index names the message.
ClientPost ==
    /\ Len(calls) < MaxMessages
    /\ \E msg \in WorkerMessages :
          LET c == Len(calls) + 1
              s == [State EXCEPT !.calls = Append(@,
                       Call(msg.type, msg.columnName, msg.categoryKey,
                            "pending", "request", 0, 1, NoResult))]
          IN Becomes(postMessage(s, 1, [msg EXCEPT !.id = c]))

InitWorker ==
    /\ variant \in Variants
    /\ document = ""
    /\ worker = 0
    /\ header = FALSE
    /\ columnCache = EmptyMap
    /\ categoryCache = EmptyMap
    /\ pendingRequests = EmptyMap
    /\ calls = <<>>
    /\ batches = EmptyMap
    /\ workers = MapSet(EmptyMap, 1, NewWorker)
    /\ decompressors \in SUBSET Decompressors
    /\ input = NoInput
    /\ container = NoContainer
    /\ output = NoOutput
    /\ ToolsIdle

NextWorker ==
    \/ ClientPost
    \/ WorkerReceive
    \/ WorkerDecompressed

SpecWorker == InitWorker /\ [][NextWorker]_vars

----------------------------------------------------------------------------
(* Batch operations: DataLoader.loadColumns, DataLoader.preloadCommonColumns *)
(* and ProgressiveDataAdapterImpl.preloadCriticalData                       *)

\* header.columns of the good payload in the order of the header.
headerColumns ==
    <<[name |-> "x", categoryKey |-> "a", dtype |-> "float32"],
      [name |-> "z", categoryKey |-> "a", dtype |-> "int32"],
      [name |-> "y", categoryKey |-> "b", dtype |-> "int32"],
      [name |-> "sample_id", categoryKey |-> "c", dtype |-> "string"]>>

commonColumns == {"sample_id", "total_counts", "num_nonzero_vars"}

\* The argument lists loadColumns is called with; column q is not in the
\* header.
Requests ==
    {<<>>,
     <<[columnName |-> "x", categoryKey |-> "a"]>>,
     <<[columnName |-> "x", categoryKey |-> "a"],
       [columnName |-> "z", categoryKey |-> "a"]>>,
     <<[columnName |-> "x", categoryKey |-> "a"],
       [columnName |-> "q", categoryKey |-> "a"]>>,
     <<[columnName |-> "q", categoryKey |-> "a"],
       [columnName |-> "x", categoryKey |-> "a"]>>}

\* What a batch call keeps: the calls whose promises it combines, in the
\* order of the array, and the array its promise resolved with.
NewBatch == [members |-> <<>>, results |-> <<>>]

\* The requests for the columns of cols whose name is in names, in order.
RECURSIVE requestsFor(_, _)
requestsFor(cols, names) ==
    IF cols = <<>> THEN <<>>
    ELSE IF Head(cols).name \in names
    THEN <<[columnName |-> Head(cols).name,
            categoryKey |-> Head(cols).categoryKey]>>
             \o requestsFor(Tail(cols), names)
    ELSE requestsFor(Tail(cols), names)

\* requests.map(req => this.loadColumn(req.columnName, req.categoryKey)) in
\* batch call b: every loadColumn runs up to its first suspension, one after
\* the other, and its promise joins the array.
RECURSIVE loadEach(_, _, _)
loadEach(s, b, requests) ==
    IF requests = <<>> THEN s
    ELSE LET c == Len(s.calls) + 1
             s1 == loadColumn(s, c, Head(requests).columnName,
                              Head(requests).categoryKey)
         IN loadEach([s1 EXCEPT !.batches[b].members = Append(@, c)],
                     b, Tail(requests))

\* A new batch call b of kind op, suspended in `phase` on call `awaits`.
newBatch(s, op, st, phase, awaits) ==
    [s EXCEPT !.calls = Append(@, Call(op, "", "", st, phase, awaits, 0, NoResult)),
              !.batches = MapSet(@, Len(s.calls) + 1, NewBatch)]

Members(s, b) ==
    {s.batches[b].members[i] : i \in DOMAIN s.batches[b].members}

\* Promise.all(promises) awaited by batch call b: rejected as soon as one
\* promise of the array is rejected, resolved with the array of results once
\* all of them are resolved.
PromiseAll(s, b) ==
    IF \E m \in Members(s, b) : s.calls[m].st = "rejected"
    THEN [s EXCEPT !.calls[b] = Settle(@, Throw)]
    ELSE IF \A m \in Members(s, b) : s.calls[m].st = "resolved"
    THEN [s EXCEPT
            !.calls[b] = Settle(@, Return(NoResult)),
            !.batches[b].results =
                [i \in DOMAIN s.batches[b].members |->
                    s.calls[s.batches[b].members[i]].res]]
    ELSE s

\* Promise.allSettled over promises that each carry a .catch: resolved once
\* every one of them has settled.
PromiseAllSettled(s, b) ==
    IF \A m \in Members(s, b) : s.calls[m].st # "pending"
    THEN [s EXCEPT !.calls[b] = Settle(@, Return(NoResult))]
    ELSE s

\* loadColumns(requests) up to its suspension, as call number b.
loadColumns(s, b, requests) ==
    LET s1 == newBatch(s, "loadColumns", "pending", "all", 0)
    IN PromiseAll(loadEach(s1, b, requests), b)

\* preloadCommonColumns() up to its suspension, as call number b.
preloadCommonColumns(s, b) ==
    IF ~s.header
    THEN newBatch(s, "preloadCommonColumns", "resolved", "", 0)
    ELSE LET s1 == newBatch(s, "preloadCommonColumns", "pending", "all", 0)
         IN PromiseAll(loadEach(s1, b,
                requestsFor(headerColumns, commonColumns)), b)

\* dataLoader.hasProgressiveData(): the payload element has text.
hasProgressiveData == document # ""

\* this.preloadPromise of the adapter: the promise of the first call of
\* preloadCriticalData that found progressive data (0: null).
preloadPromise(s) ==
    LET made == {i \in DOMAIN s.calls :
                    /\ s.calls[i].op = "preloadCriticalData"
                    /\ s.calls[i].awaits # 0
                    /\ s.calls[s.calls[i].awaits].op = "init"}
    IN IF made = {} THEN 0
       ELSE CHOOSE i \in made : \A j \in made : i <= j

\* The first column of each category, in header order.
firstOfEachCategory ==
    LET IsFirst(i) ==
            \A j \in 1..(i - 1) :
                headerColumns[j].categoryKey # headerColumns[i].categoryKey
        RECURSIVE from(_)
        from(i) ==
            IF i > Len(headerColumns) THEN <<>>
            ELSE IF IsFirst(i)
            THEN <<[columnName |-> headerColumns[i].name,
                    categoryKey |-> headerColumns[i].categoryKey]>> \o from(i + 1)
            ELSE from(i + 1)
    IN from(1)

\* _doPreloadCriticalData after `await dataLoader.init()` in batch call b:
\* getHeader(), one loadColumnData per category, Promise.allSettled.
preloadColumns(s, b) ==
    IF ~s.header
    THEN [s EXCEPT !.calls[b] = Settle(@, Throw)]
    ELSE LET s1 == [s EXCEPT !.calls[b].phase = "allSettled"]
         IN PromiseAllSettled(loadEach(s1, b, firstOfEachCategory), b)

\* Batch call b after one of the promises it awaits may have settled.
resumeBatch(s, b) ==
    LET call == s.calls[b] IN
    IF call.st # "pending" THEN s
    ELSE IF call.phase = "all" THEN PromiseAll(s, b)
    ELSE IF call.phase = "allSettled" THEN PromiseAllSettled(s, b)
    ELSE IF s.calls[call.awaits].st = "pending" THEN s
    ELSE IF s.calls[call.awaits].st = "rejected"
    THEN [s EXCEPT !.calls[b] = Settle(@, Throw)]
    ELSE IF call.phase = "init" THEN preloadColumns(s, b)
    ELSE [s EXCEPT !.calls[b] = Settle(@, Return(NoResult))]

\* The continuations of the batch calls numbered from b on, in the order
\* the calls were made.
RECURSIVE resumeBatches(_, _)
resumeBatches(s, b) ==
    IF b > Len(s.calls) THEN s
    ELSE IF MapHas(s.batches, b) THEN resumeBatches(resumeBatch(s, b), b + 1)
    ELSE resumeBatches(s, b + 1)

\* preloadCriticalData() up to its suspension, as call number b; the init()
\* it calls is call number b + 1.
preloadCriticalData(s, b) ==
    IF preloadPromise(s) # 0
    THEN resumeBatch(newBatch(s, "preloadCriticalData", "pending", "preload",
                              preloadPromise(s)), b)
    ELSE IF ~hasProgressiveData
    THEN newBatch(s, "preloadCriticalData", "resolved", "", 0)
    ELSE LET s1 == newBatch(s, "preloadCriticalData", "pending", "init", b + 1)
         IN resumeBatch(init(s1, b + 1), b)

CallLoadColumns ==
    /\ Len(calls) < MaxCalls
    /\ \E requests \in Requests :
          Becomes(loadColumns(State, Len(calls) + 1, requests))

CallPreloadCommonColumns ==
    /\ Len(calls) < MaxCalls
    /\ Becomes(preloadCommonColumns(State, Len(calls) + 1))

CallPreloadCriticalData ==
    /\ Len(calls) < MaxCalls
    /\ header \/ Cardinality(DOMAIN workers) < MaxWorkers
    /\ Becomes(preloadCriticalData(State, Len(calls) + 1))

\* One message event, with the continuations of the batch calls that the
\* promises settled by it wake.
DispatchBatch ==
    /\ ~microtaskPending
    /\ \E w \in DOMAIN workers :
          /\ workers[w].alive
          /\ workers[w].outbox # <<>>
          /\ Becomes(resumeBatches(dispatch(State, w), 1))

NextBatch ==
    \/ CallInit
    \/ ResumeInit
    \/ CallLoadColumn
    \/ CallLoadColumns
    \/ CallPreloadCommonColumns
    \/ CallPreloadCriticalData
    \/ WorkerReceive
    \/ WorkerDecompressed
    \/ DispatchBatch

SpecBatch == Init /\ [][NextBatch]_vars
----------------------------------------------------------------------------
(* JavaScript values and the typed-array conversions the packer relies on *)

\* A value of the input JSON: a number (the fraction n/d in lowest terms,
\* d = 1 for an integer), a string, a boolean or null; NaN arises in
\* conversions.
Num(n, d) == [t |-> "num", n |-> n, d |-> d, s |-> ""]

Str(s) == [t |-> "str", n |-> 0, d |-> 1, s |-> s]

Bool(b) == [t |-> "bool", n |-> IF b THEN 1 ELSE 0, d |-> 1, s |-> ""]

Null == [t |-> "null", n |-> 0, d |-> 1, s |-> ""]

NaN == [t |-> "nan", n |-> 0, d |-> 1, s |-> ""]

\* The bounds the packer tests integers against.
Int32Max == 2147483647

Int32Min == -2147483647 - 1

\* Significand precision of a 32-bit float, in bits.
Float32Precision == 24

RECURSIVE Pow2(_)
Pow2(k) == IF k = 0 THEN 1 ELSE 2 * Pow2(k - 1)

\* ToNumber: the strings of the model are labels, not numeric literals.
ToNumber(v) ==
    CASE v.t = "num" -> v
      [] v.t = "bool" -> Num(v.n, 1)
      [] v.t = "null" -> Num(0, 1)
      [] OTHER -> NaN

\* ToInt32 of a number: NaN gives 0, a fraction is truncated toward zero.
\* (The reduction modulo 2^32 is the identity on the integers of the model.)
ToInt32(x) ==
    IF x.t = "nan" THEN 0
    ELSE IF x.n >= 0 THEN x.n \div x.d ELSE -((-x.n) \div x.d)

\* Number.isInteger(v)
isInteger(v) == v.t = "num" /\ v.d = 1

\* parseFloat(v): v is turned into a string and parsed; "true", "false",
\* "null" and the labels parse to NaN.
parseFloat(v) == IF v.t = "num" THEN v ELSE NaN

\* x || 0 for a number x: NaN and 0 are falsy.
orZero(x) == IF x.t = "nan" \/ x.n = 0 THEN Num(0, 1) ELSE x

\* a / b rounded to the nearest integer, ties to even (a >= 0, b > 0).
RoundHalfEven(a, b) ==
    LET q == a \div b
        r == a % b
    IN IF 2 * r < b THEN q
       ELSE IF 2 * r > b THEN q + 1
       ELSE IF q % 2 = 0 THEN q ELSE q + 1

RECURSIVE Lowest(_, _)
Lowest(n, d) ==
    IF d > 1 /\ n % 2 = 0 /\ d % 2 = 0
    THEN Lowest(n \div 2, d \div 2)
    ELSE Num(n, d)

RECURSIVE ExponentDown(_, _, _)
ExponentDown(a, d, e) ==
    IF a \div (d * Pow2(e)) < Pow2(Float32Precision) THEN e
    ELSE ExponentDown(a, d, e + 1)

RECURSIVE ExponentUp(_, _, _)
ExponentUp(a, d, k) ==
    IF (a * Pow2(k)) \div d >= Pow2(Float32Precision - 1) THEN k
    ELSE ExponentUp(a, d, k + 1)

\* The float32 nearest to a / d (a >= 0): a significand of 24 bits.
froundAbs(a, d) ==
    IF a = 0 THEN Num(0, 1)
    ELSE IF a \div d >= Pow2(Float32Precision)
    THEN LET e == ExponentDown(a, d, 1)
         IN Num(RoundHalfEven(a, d * Pow2(e)) * Pow2(e), 1)
    ELSE LET k == ExponentUp(a, d, 0)
         IN Lowest(RoundHalfEven(a * Pow2(k), d), Pow2(k))

\* Storing a number in a Float32Array element (Math.fround).
fround(x) ==
    IF x.t = "nan" THEN NaN
    ELSE IF x.n >= 0 THEN froundAbs(x.n, x.d)
    ELSE LET r == froundAbs(-x.n, x.d) IN Num(-r.n, r.d)

\* new Int32Array(data): one 4-byte word per element.
Int32Array(data) ==
    [i \in DOMAIN data |-> [view |-> "int32", v |-> Num(ToInt32(ToNumber(data[i])), 1)]]

\* new Float32Array(data)
Float32Array(data) ==
    [i \in DOMAIN data |-> [view |-> "float32", v |-> fround(ToNumber(data[i]))]]

\* typedArray.byteLength
byteLength(typedArray) == 4 * Len(typedArray)

----------------------------------------------------------------------------
(* The packer: packColumnaryBinary *)

\* Number of columns in the data given to the packer.
MaxColumns == 2

\* A column of the input JSON.  dtype is the declared one ("" when the
\* column declares none); isArray is Array.isArray(column.data);
\* categories <<>> is a column without a categories list.
Column(name, dtype, isArray, data, categories) ==
    [name |-> name, dtype |-> dtype, isArray |-> isArray, data |-> data,
     categories |-> categories]

SampleColumns ==
    { Column("x", "numeric", TRUE, <<Num(3, 2), Num(1, 10)>>, <<>>),
      Column("n", "integer", TRUE, <<Num(1, 1), Num(-3, 1)>>, <<>>),
      Column("m", "numeric", TRUE, <<Num(16777217, 1), Num(3, 2)>>, <<>>),
      Column("e", "", TRUE, <<>>, <<>>),
      Column("g", "categorical", TRUE,
             <<Num(0, 1), Num(1, 1), Num(0, 1)>>, <<"a", "b">>),
      Column("grp", "categorical", TRUE,
             <<Str("a"), Str("b"), Str("a")>>, <<>>),
      Column("flag", "boolean", TRUE, <<Bool(TRUE), Bool(FALSE)>>, <<>>),
      Column("nul", "", TRUE, <<Num(1, 1), Null>>, <<>>),
      Column("s", "", FALSE, <<>>, <<>>) }

\* Column lists of at most k columns with names unique within the list.
ColumnLists(k) ==
    {cs \in UNION {[1..len -> SampleColumns] : len \in 0..k} :
        \A i, j \in DOMAIN cs : i # j => cs[i].name # cs[j].name}

\* The data argument: Object.entries(data) in order, one or two categories
\* of MaxColumns columns in all at most.
Datasets ==
    {<<[key |-> "a", columns |-> cs]>> : cs \in ColumnLists(MaxColumns)}
    \cup UNION {{<<[key |-> "a", columns |-> cs], [key |-> "b", columns |-> ds]>> :
                    cs \in ColumnLists(k), ds \in ColumnLists(MaxColumns - k)} :
                 k \in 0..MaxColumns}

\* The structure argument: structure.categories, with display names of
\* every length modulo 4, and one that names a category "c" the data does
\* not have.
Structures ==
    {<<[key |-> "a", name |-> nm]>> : nm \in {"A", "AB", "ABC", "ABCD"}}
    \cup {<<[key |-> "c", name |-> "C"]>>}

\* The typed array and dtype tag the packer chooses for a column.
encode(column) ==
    IF column.dtype = "categorical"
    THEN [typedArray |-> Int32Array(column.data), dtype |-> "categorical"]
    ELSE IF \A i \in DOMAIN column.data :
               /\ isInteger(column.data[i])
               /\ column.data[i].n >= Int32Min
               /\ column.data[i].n <= Int32Max
    THEN [typedArray |-> Int32Array(column.data), dtype |-> "int32"]
    ELSE [typedArray |->
              Float32Array([i \in DOMAIN column.data |->
                               orZero(parseFloat(column.data[i]))]),
          dtype |-> "float32"]

\* The loop's running offset with four more bytes after each column.
spacedDataOffset(currentDataOffset, typedArray) ==
    currentDataOffset + byteLength(typedArray) + 4

\* The loop's running offset left where it was.
sameDataOffset(currentDataOffset, typedArray) == currentDataOffset

\* currentDataOffset += typedArray.byteLength
nextDataOffset(currentDataOffset, typedArray) ==
    currentDataOffset + byteLength(typedArray)

\* The body of the inner loop: acc is header.columns, dataBuffers and
\* currentDataOffset so far.
packColumn(acc, categoryKey, column) ==
    IF ~column.isArray THEN acc
    ELSE LET enc == encode(column) IN
         [columns |-> Append(acc.columns,
              [name |-> column.name, categoryKey |-> categoryKey,
               dtype |-> enc.dtype, offset |-> acc.currentDataOffset,
               length |-> Len(enc.typedArray),
               categories |-> column.categories]),
          dataBuffers |-> Append(acc.dataBuffers, enc.typedArray),
          currentDataOffset |->
              nextDataOffset(acc.currentDataOffset, enc.typedArray)]

RECURSIVE packColumns(_, _, _)
packColumns(acc, categoryKey, columns) ==
    IF columns = <<>> THEN acc
    ELSE packColumns(packColumn(acc, categoryKey, Head(columns)),
                     categoryKey, Tail(columns))

RECURSIVE packCategories(_, _)
packCategories(acc, data) ==
    IF data = <<>> THEN acc
    ELSE packCategories(packColumns(acc, Head(data).key, Head(data).columns),
                        Tail(data))

\* Length of JSON.stringify of a non-negative integer.
RECURSIVE Digits(_)
Digits(n) == IF n < 10 THEN 1 ELSE 1 + Digits(n \div 10)

RECURSIVE SumOver(_, _)
SumOver(f, seq) ==
    IF seq = <<>> THEN 0 ELSE f[Head(seq)] + SumOver(f, Tail(seq))

\* Commas between k elements.
Commas(k) == IF k = 0 THEN 0 ELSE k - 1

\* Length of ,"categories":["a","b"] in a descriptor (nothing when undefined).
categoriesJsonLength(categories) ==
    IF categories = <<>> THEN 0
    ELSE 15 + SumOver([i \in DOMAIN categories |-> Len(categories[i]) + 2],
                      [i \in DOMAIN categories |-> i])
            + Commas(Len(categories)) + 1

\* Length of {"name":..,"categoryKey":..,"dtype":..,"offset":..,"length":..}
descriptorJsonLength(col) ==
    59 + Len(col.name) + Len(col.categoryKey) + Len(col.dtype)
       + Digits(col.offset) + Digits(col.length)
       + categoriesJsonLength(col.categories)

\* Length of "key":{"name":..,"key":..,"additionalAxes":false,"defaultFilters":[]}
categoryJsonLength(cat) == 66 + 2 * Len(cat.key) + Len(cat.name)

\* headerBytes.length: the UTF-8 length of JSON.stringify(header).
headerJsonLength(hdr) ==
    26 + 2
       + SumOver([i \in DOMAIN hdr.categories |->
                     categoryJsonLength(hdr.categories[i])],
                 [i \in DOMAIN hdr.categories |-> i])
       + Commas(Len(hdr.categories))
       + 12
       + SumOver([i \in DOMAIN hdr.columns |->
                     descriptorJsonLength(hdr.columns[i])],
                 [i \in DOMAIN hdr.columns |-> i])
       + Commas(Len(hdr.columns))
       + 1 + 15

\* const alignment = 4
alignment == 4

\* The layout with the data region directly behind the header.
noPadding(dataStartOffset) == 0

\* The packer's padding with the outer reduction modulo alignment left out.
paddingUnreduced(dataStartOffset) ==
    alignment - (dataStartOffset % alignment)

\* (alignment - (dataStartOffset % alignment)) % alignment
padding(dataStartOffset) ==
    (alignment - (dataStartOffset % alignment)) % alignment

\* combinedView.set(new Uint8Array(buffer), dataOffset) for each data buffer:
\* the 4-byte words of the container by their byte offset.
RECURSIVE writeBuffers(_, _, _)
writeBuffers(words, dataOffset, dataBuffers) ==
    IF dataBuffers = <<>> THEN words
    ELSE LET buffer == Head(dataBuffers)
             written == [o \in DOMAIN words
                              \cup {dataOffset + 4 * (i - 1) : i \in DOMAIN buffer} |->
                           IF \E i \in DOMAIN buffer : o = dataOffset + 4 * (i - 1)
                           THEN buffer[(o - dataOffset) \div 4 + 1]
                           ELSE words[o]]
         IN writeBuffers(written, dataOffset + byteLength(buffer),
                         Tail(dataBuffers))

\* A header that carries a field set from the state of the run: 0 in the
\* first run of the packer, 1 in a later one.
stampedHeader(structure) ==
    [version |-> 1, categories |-> structure, columns |-> <<>>,
     totalSize |-> IF container.kind = "none" THEN 0 ELSE 1]

\* const header = { version: 1, categories: ..., columns: [], totalSize: 0 }
newHeader(structure) ==
    [version |-> 1, categories |-> structure, columns |-> <<>>, totalSize |-> 0]

\* packColumnaryBinary(data, structure), up to the combined buffer that is
\* then gzipped and base64-encoded.
packColumnaryBinary(data, structure) ==
    LET packed == packCategories(
                      [columns |-> <<>>, dataBuffers |-> <<>>,
                       currentDataOffset |-> 0], data)
        hdr == [newHeader(structure) EXCEPT !.columns = packed.columns]
        headerBytesLength == headerJsonLength(hdr)
        dataStartOffset == 4 + headerBytesLength
        alignedDataStart == dataStartOffset + padding(dataStartOffset)
    IN [kind |-> "container",
        headerLength |-> headerBytesLength,
        header |-> hdr,
        alignedDataStart |-> alignedDataStart,
        totalLength |-> alignedDataStart + packed.currentDataOffset,
        words |-> writeBuffers(EmptyMap, alignedDataStart, packed.dataBuffers)]

----------------------------------------------------------------------------
(* The reader: parseHeader, extractColumn and the facade's typed view, on   *)
(* the bytes of a container                                                *)

\* What a view reads from bytes that hold no element of its type.
Garbage == [t |-> "garbage", n |-> 0, d |-> 1, s |-> ""]

\* A lookup that finds nothing (undefined).
Undefined == [t |-> "undefined", n |-> 0, d |-> 1, s |-> ""]

\* parseHeader(buffer): the JSON object found after the length word.  No
\* field of it is examined.
parseHeader(buffer) == buffer.header

\* The reader's data-region start without the padding.
unalignedDataStart(headerLength) == 4 + headerLength

\* extractColumn: dataStart, padding and alignedDataStart, from the length
\* word of the buffer.
readAlignedDataStart(headerLength) ==
    LET dataStart == 4 + headerLength
        readPadding == (alignment - (dataStart % alignment)) % alignment
    IN dataStart + readPadding

\* new Int32Array(buffer, absoluteOffset, length) (or Float32Array): a
\* RangeError when the offset is not a multiple of 4 or the range leaves
\* the buffer; else the elements found there.
typedView(buffer, view, absoluteOffset, length) ==
    IF absoluteOffset % 4 # 0 \/ absoluteOffset + 4 * length > buffer.totalLength
    THEN [ok |-> FALSE, elements |-> <<>>]
    ELSE [ok |-> TRUE,
          elements |->
              [i \in 1..length |->
                  LET o == absoluteOffset + 4 * (i - 1) IN
                  IF o \in DOMAIN buffer.words /\ buffer.words[o].view = view
                  THEN buffer.words[o].v
                  ELSE Garbage]]

\* The first descriptor of hdr.columns with this name and category (0: none).
findDescriptor(hdr, columnName, categoryKey) ==
    LET found == {i \in DOMAIN hdr.columns :
                     /\ hdr.columns[i].name = columnName
                     /\ hdr.columns[i].categoryKey = categoryKey}
    IN IF found = {} THEN 0
       ELSE CHOOSE i \in found : \A j \in found : i <= j

\* extractColumn(buffer, header, columnName, categoryKey) as to the bytes it
\* copies: the elements of the copied column.
extractColumnElements(buffer, hdr, columnName, categoryKey) ==
    LET i == findDescriptor(hdr, columnName, categoryKey) IN
    IF i = 0 THEN [ok |-> FALSE, elements |-> <<>>]
    ELSE LET column == hdr.columns[i]
             absoluteOffset ==
                 readAlignedDataStart(buffer.headerLength) + column.offset
         IN IF column.dtype \in {"int32", "categorical"}
            THEN typedView(buffer, "int32", absoluteOffset, column.length)
            ELSE IF column.dtype = "float32"
            THEN typedView(buffer, "float32", absoluteOffset, column.length)
            ELSE [ok |-> FALSE, elements |-> <<>>]

\* Decode of a typed column: a categorical index is looked up in the
\* descriptor's categories, any other element is the number itself.
decode(dtype, elements, categories) ==
    [i \in DOMAIN elements |->
        IF dtype = "categorical"
        THEN IF elements[i].t = "num" /\ elements[i].d = 1
                /\ elements[i].n + 1 \in DOMAIN categories
             THEN Str(categories[elements[i].n + 1])
             ELSE Undefined
        ELSE elements[i]]

\* The header as a reader returns it.
readHeader(buffer) ==
    [kind |-> "header", ok |-> TRUE, header |-> parseHeader(buffer)]

\* A column as the application gets it: extractColumn in the worker, the
\* typed view of bufferToTypedColumn on the copy, then decode.
readColumn(buffer, columnName, categoryKey) ==
    LET hdr == parseHeader(buffer)
        got == extractColumnElements(buffer, hdr, columnName, categoryKey)
        i == findDescriptor(hdr, columnName, categoryKey)
    IN IF ~got.ok
       THEN [kind |-> "column", ok |-> FALSE, name |-> columnName,
             categoryKey |-> categoryKey, index |-> i, dtype |-> "",
             elements |-> <<>>, categories |-> <<>>, values |-> <<>>]
       ELSE [kind |-> "column", ok |-> TRUE, name |-> columnName,
             categoryKey |-> categoryKey, index |-> i,
             dtype |-> hdr.columns[i].dtype,
             elements |-> got.elements,
             categories |-> hdr.columns[i].categories,
             values |-> decode(hdr.columns[i].dtype, got.elements,
                               hdr.columns[i].categories)]

\* The byte range extractColumn views and copies for a column: from the
\* absolute offset of the first descriptor found, 4 bytes per element.
copiedRange(buffer, hdr, columnName, categoryKey) ==
    LET i == findDescriptor(hdr, columnName, categoryKey)
        absoluteOffset ==
            readAlignedDataStart(buffer.headerLength) + hdr.columns[i].offset
    IN [from |-> absoluteOffset,
        to |-> absoluteOffset + 4 * hdr.columns[i].length]

\* The descriptors extractCategory would go through if it did not filter on
\* categoryKey: all of them.
allDescriptors(hdr, categoryKey) == DOMAIN hdr.columns

\* header.columns.filter(col => col.categoryKey === categoryKey), as indexes.
categoryColumns(hdr, categoryKey) ==
    {i \in DOMAIN hdr.columns : hdr.columns[i].categoryKey = categoryKey}

\* extractCategory(buffer, header, categoryKey): one extractColumn per
\* descriptor of the category, looked up again by name and category; `copies`
\* holds, per descriptor, the range copied and the elements found there.
extractCategoryElements(buffer, categoryKey) ==
    LET hdr == parseHeader(buffer)
        cols == categoryColumns(hdr, categoryKey)
        got(i) == extractColumnElements(buffer, hdr, hdr.columns[i].name,
                                        hdr.columns[i].categoryKey)
    IN IF cols = {} \/ \E i \in cols : ~got(i).ok
       THEN [kind |-> "category", ok |-> FALSE, categoryKey |-> categoryKey,
             copies |-> EmptyMap]
       ELSE [kind |-> "category", ok |-> TRUE, categoryKey |-> categoryKey,
             copies |->
                 [i \in cols |->
                     [name |-> hdr.columns[i].name,
                      range |-> copiedRange(buffer, hdr, hdr.columns[i].name,
                                            hdr.columns[i].categoryKey),
                      elements |-> got(i).elements]]]

----------------------------------------------------------------------------
(* The packer and the reader as a state machine of their own *)

LoaderIdle ==
    UNCHANGED <<variant, document, worker, header, columnCache, categoryCache,
                pendingRequests, calls, batches, workers, decompressors,
                files, reports, qc, viewport>>

Pack ==
    /\ container.kind = "none"
    /\ container' = packColumnaryBinary(input.data, input.structure)
    /\ UNCHANGED <<input, output>>
    /\ LoaderIdle

\* The container at hand is one of another format version: the same layout
\* with another version tag in its header.
ReceiveOtherVersion ==
    /\ container.kind = "container"
    /\ container.header.version = 1
    /\ output = NoOutput
    /\ container' = [container EXCEPT !.header.version = 2]
    /\ UNCHANGED <<input, output>>
    /\ LoaderIdle

\* The reads and the second run are functions of the container and of the
\* arguments alone: a behaviour holds one of them, whose result stays in
\* `output`.
ReadHeader ==
    /\ container.kind = "container"
    /\ output = NoOutput
    /\ output' = readHeader(container)
    /\ UNCHANGED <<input, container>>
    /\ LoaderIdle

\* A second run of the packer on the same arguments.
PackAgain ==
    /\ container.kind = "container"
    /\ container.header.version = 1
    /\ output = NoOutput
    /\ output' = [kind |-> "container", ok |-> TRUE,
                  container |-> packColumnaryBinary(input.data, input.structure)]
    /\ UNCHANGED <<input, container>>
    /\ LoaderIdle

\* The names of the columns of data, and "q", which no column has.
ColumnNamesOf(data) ==
    UNION {{data[k].columns[j].name : j \in DOMAIN data[k].columns} :
              k \in DOMAIN data} \cup {"q"}

ReadColumn ==
    /\ container.kind = "container"
    /\ output = NoOutput
    /\ \E columnName \in ColumnNamesOf(input.data), categoryKey \in {"a", "b"} :
          output' = readColumn(container, columnName, categoryKey)
    /\ UNCHANGED <<input, container>>
    /\ LoaderIdle

ReadCategory ==
    /\ container.kind = "container"
    /\ output = NoOutput
    /\ \E categoryKey \in {"a", "b", "zz"} :
          output' = extractCategoryElements(container, categoryKey)
    /\ UNCHANGED <<input, container>>
    /\ LoaderIdle

InitContainer ==
    /\ variant = "module"
    /\ document = ""
    /\ worker = 0
    /\ header = FALSE
    /\ columnCache = EmptyMap
    /\ categoryCache = EmptyMap
    /\ pendingRequests = EmptyMap
    /\ calls = <<>>
    /\ batches = EmptyMap
    /\ workers = EmptyMap
    /\ decompressors = Decompressors
    /\ input \in [data : Datasets, structure : Structures]
    /\ container = NoContainer
    /\ output = NoOutput
    /\ ToolsIdle

NextContainer ==
    \/ Pack
    \/ PackAgain
    \/ ReceiveOtherVersion
    \/ ReadHeader
    \/ ReadColumn
    \/ ReadCategory

SpecContainer == InitContainer /\ [][NextContainer]_vars

----------------------------------------------------------------------------
(* Vocabulary of the properties *)

LoadOps == {"loadColumn", "loadCategory"}

DataTypes == {"columnData", "categoryData"}

SameRequest(a, b) ==
    a.op = b.op /\ a.columnName = b.columnName /\ a.categoryKey = b.categoryKey

\* The request messages worker w holds: queued or in a suspended handler.
Held(ws, w) ==
    {ws[w].inbox[i] : i \in DOMAIN ws[w].inbox}
        \cup {h.msg : h \in ws[w].running}

\* Load call p posted a message to a worker that still runs and no response
\* to it has reached the facade.
Unanswered(p) ==
    /\ calls[p].op \in LoadOps
    /\ calls[p].w # 0
    /\ workers[calls[p].w].alive
    /\ ~calls[p].answered

NoDestroy(cs) == \A i \in DOMAIN cs : cs[i].op # "destroy"

\* The calls made in this step.
NewCalls == DOMAIN calls' \ DOMAIN calls

\* This step dispatches the response at the head of worker w's outbox.
Dispatches(w) ==
    /\ workers[w].alive
    /\ workers[w].outbox # <<>>
    /\ DOMAIN calls' = DOMAIN calls
    /\ workers'[w].alive
    /\ workers'[w].outbox = Tail(workers[w].outbox)

Quiescent ==
    /\ ~microtaskPending
    /\ \A w \in DOMAIN workers :
          workers[w].inbox = <<>> /\ workers[w].running = {}
              /\ workers[w].outbox = <<>>

----------------------------------------------------------------------------
(* C1: on an initialized loader, calls of loadColumn (loadCategory) for a   *)
(* key that is not cached, made before the response for that key arrives,  *)
(* post exactly one message between them: the first call posts it, every   *)
(* later one posts nothing and waits for that request's response.          *)
C1_ConcurrentCallsShareOneRequest ==
    [][\A n \in NewCalls :
          ( /\ calls'[n].op \in LoadOps
            /\ ~notInitialized(State)
            /\ ~MapHas(IF calls'[n].op = "loadColumn"
                       THEN columnCache ELSE categoryCache,
                       requestKey(calls'[n])) )
          => LET prior == {p \in DOMAIN calls :
                             SameRequest(calls[p], calls'[n]) /\ Unanswered(p)}
             IN IF prior = {}
                THEN calls'[n].w # 0
                ELSE calls'[n].w = 0 /\ calls'[n].awaits \in prior]_vars

(* C2: in every reachable state at most one request message per key has    *)
(* been posted and is not answered yet.                                    *)
C2_AtMostOneOutstandingPerKey ==
    \A p, q \in DOMAIN calls :
        (Unanswered(p) /\ Unanswered(q) /\ SameRequest(calls[p], calls[q]))
            => p = q

(* C3: the dispatch of an error response to a load request rejects that    *)
(* request and no call that waits on another request, and leaves the       *)
(* cached header as it is.                                                 *)
C3_ErrorRejectsOnlyItsRequest ==
    [][\A w \in DOMAIN workers :
          ( /\ Dispatches(w)
            /\ Head(workers[w].outbox).type = "error"
            /\ calls[Head(workers[w].outbox).id].op \in LoadOps )
          => LET e == Head(workers[w].outbox) IN
             /\ header' = header
             /\ calls[e.id].st = "pending" => calls'[e.id].st = "rejected"
             /\ \A c \in DOMAIN calls :
                   (calls[c].st = "pending" /\ calls'[c].st = "rejected")
                       => calls[c].awaits = e.id]_vars

(* C4: when the worker ends the handling of a loadColumn or loadCategory   *)
(* message, it has posted exactly one response to it: the data, or an      *)
(* error that carries the request's columnName and categoryKey.            *)
C4_FailurePostsErrorWithNames ==
    [][\A w \in DOMAIN workers :
          (workers[w].alive /\ workers'[w].alive)
          => \A m \in Held(workers, w) \ Held(workers', w) :
                m.type \in LoadOps
                => \E r \in {Response(t, FALSE, m.columnName, m.categoryKey, d, m.id) :
                               t \in DataTypes \cup {"error"},
                               d \in {NoData,
                                      ColumnBuffer(m.id, m.categoryKey, m.columnName),
                                      extractCategory(workers'[w].buffer,
                                                      m.categoryKey, m.id)}} :
                      workers'[w].outbox = Append(workers[w].outbox, r)]_vars

(* C5: every promise returned by init, loadColumn or loadCategory settles: *)
(* once every worker has handled every message and every response has been *)
(* dispatched, no call of a loader that was never destroyed is pending.    *)
C5_EveryPromiseSettles ==
    (Quiescent /\ NoDestroy(calls))
        => \A c \in DOMAIN calls : calls[c].st # "pending"

(* C6: once a load call has resolved, every later call for the same key on *)
(* the loader (not destroyed) posts no message and resolves at once with   *)
(* the buffer held in the cache.                                           *)
C6_CachedKeyIsServedFromCache ==
    [][\A n \in NewCalls :
          ( /\ calls'[n].op \in LoadOps
            /\ NoDestroy(calls')
            /\ \E p \in DOMAIN calls :
                  SameRequest(calls[p], calls'[n]) /\ calls[p].st = "resolved" )
          => LET cache == IF calls'[n].op = "loadColumn"
                          THEN columnCache ELSE categoryCache
                 key == requestKey(calls'[n])
             IN /\ workers' = workers
                /\ calls'[n].st = "resolved"
                /\ MapHas(cache, key)
                /\ calls'[n].res.data = cache[key]]_vars

(* C7: two resolved loadColumn calls for the same key hold the same        *)
(* typed-array object.                                                     *)
C7_ResultsAreReferenceEqual ==
    \A p, q \in DOMAIN calls :
        ( /\ calls[p].op = "loadColumn"
          /\ SameRequest(calls[p], calls[q])
          /\ calls[p].st = "resolved" /\ calls[q].st = "resolved" )
        => calls[p].res.obj = calls[q].res.obj

(* C8: at most one worker exists for the loader, also when init() is       *)
(* called again before an earlier call has resolved.  Stated for the       *)
(* loaders none of whose init() calls has failed, so that a worker left    *)
(* behind by a rejected init() does not count.                             *)
C8_AtMostOneWorker ==
    (\A i \in DOMAIN calls : calls[i].op = "init" => calls[i].st # "rejected")
        => Cardinality({w \in DOMAIN workers : workers[w].alive}) <= 1

\* An init() call made in this step changes nothing of the loader and
\* nothing of any worker.
InitIsNoOp(n) ==
    /\ calls'[n].st = "resolved"
    /\ UNCHANGED <<worker, header, columnCache, categoryCache,
                   pendingRequests, workers>>

C10_DecompressesAtMostOnce ==
    \A w \in DOMAIN workers : workers[w].decompressions <= 1

----------------------------------------------------------------------------
(* The worker's cache and the buffers it hands out *)

\* This step is worker w handling the message at the head of its inbox, up
\* to the handler's first suspension.
Handles(w) ==
    /\ workers[w].alive /\ workers'[w].alive
    /\ workers[w].inbox # <<>>
    /\ workers'[w].inbox = Tail(workers[w].inbox)

\* The responses worker w has posted and the main thread has not seen yet.
Posted(w) == {workers[w].outbox[i] : i \in DOMAIN workers[w].outbox}

(* C11: handling a setPayload message only stores the base64 string: it    *)
(* starts no decompression and leaves the worker's buffer and header as    *)
(* they are.                                                               *)
C11_SetPayloadOnlyStores ==
    [][\A w \in DOMAIN workers :
          (Handles(w) /\ Head(workers[w].inbox).type = "setPayload")
          => /\ workers'[w].payload = Head(workers[w].inbox).payload
             /\ workers'[w].decompressions = workers[w].decompressions
             /\ workers'[w].running = workers[w].running
             /\ workers'[w].buffer = workers[w].buffer
             /\ workers'[w].header = workers[w].header]_vars

(* C12: once a worker has stored its decompressed buffer and its header,   *)
(* no later step of that worker assigns another buffer or header.          *)
C12_BufferAndHeaderAreNotReassigned ==
    [][\A w \in DOMAIN workers :
          (workers[w].alive /\ workers'[w].alive)
          => /\ workers[w].buffer # 0
                   => workers'[w].buffer = workers[w].buffer
             /\ workers[w].header => workers'[w].header]_vars

(* C13: every buffer in a columnData or categoryData response is an        *)
(* ArrayBuffer allocated for that request, holding the bytes of one        *)
(* column; the decompressed buffer of the worker is never in a response    *)
(* (the data of a response is its transfer list).                          *)
C13_ResponsesCarryFreshCopies ==
    \A w \in DOMAIN workers : \A r \in Posted(w) :
        /\ r.type = "columnData"
              => /\ r.data.kind = "ArrayBuffer"
                 /\ r.data.id = r.id
                 /\ r.data.columnName = r.columnName
                 /\ r.data.categoryKey = r.categoryKey
        /\ r.type = "categoryData"
              => \A name \in DOMAIN r.data.entries :
                    /\ r.data.entries[name].kind = "ArrayBuffer"
                    /\ r.data.entries[name].id = r.id
                    /\ r.data.entries[name].columnName = name

\* A worker has posted a column and a category, both not dispatched yet.
C13_ColumnAndCategoryPosted ==
    \E w \in DOMAIN workers : \E r, q \in Posted(w) :
        /\ r.type = "columnData"
        /\ q.type = "categoryData" /\ DOMAIN q.data.entries # {}

(* C19: the data of a categoryData response holds exactly the columns      *)
(* whose header descriptor has the categoryKey asked for, each mapped to   *)
(* the copy of that column's own bytes.                                    *)
C19_CategoryHoldsExactlyItsColumns ==
    \A w \in DOMAIN workers : \A r \in Posted(w) :
        r.type = "categoryData"
        => /\ DOMAIN r.data.entries =
                 {col.name : col \in {k \in HeaderColumns :
                                          k.categoryKey = r.categoryKey}}
           /\ \A name \in DOMAIN r.data.entries :
                 r.data.entries[name] = ColumnBuffer(r.id, r.categoryKey, name)

\* A worker has posted category "a", which has two of the four columns.
C19_CategoryOfTwoColumnsPosted ==
    \E w \in DOMAIN workers : \E r \in Posted(w) :
        /\ r.type = "categoryData"
        /\ Cardinality(DOMAIN r.data.entries) = 2
        /\ Cardinality(HeaderColumns) = 4

----------------------------------------------------------------------------
(* The container: what the packer wrote and what the reader reads back *)

Packed == container.kind = "container"

\* The typed arrays the packer made, in header order.
Written ==
    packCategories([columns |-> <<>>, dataBuffers |-> <<>>,
                    currentDataOffset |-> 0], input.data).dataBuffers

\* The input column descriptor i of the header was made from.
InputColumn(i) ==
    LET desc == container.header.columns[i]
        category == CHOOSE k \in DOMAIN input.data :
                        input.data[k].key = desc.categoryKey
        columns == input.data[category].columns
    IN columns[CHOOSE j \in DOMAIN columns : columns[j].name = desc.name]

\* The last read was of the column of descriptor i > 0.
ReadOf(i) == output.kind = "column" /\ output.index = i /\ i # 0

AllOf(data, type) == \A i \in DOMAIN data : data[i].t = type

\* A column of the kinds the format is for: numbers, booleans, or a
\* categorical column of labels or of indices into its categories list.
ValidColumn(col) ==
    /\ col.isArray
    /\ IF col.dtype = "categorical"
       THEN \/ AllOf(col.data, "str")
            \/ /\ AllOf(col.data, "num")
               /\ \A i \in DOMAIN col.data :
                     col.data[i].d = 1 /\ col.data[i].n + 1 \in DOMAIN col.categories
       ELSE AllOf(col.data, "num") \/ AllOf(col.data, "bool")

\* The values a lossless round trip returns for a valid column.
Original(col) ==
    [i \in DOMAIN col.data |->
        IF col.dtype = "categorical"
        THEN IF col.data[i].t = "str" THEN col.data[i]
             ELSE Str(col.categories[col.data[i].n + 1])
        ELSE IF col.data[i].t = "bool" THEN Num(col.data[i].n, 1)
        ELSE IF \A j \in DOMAIN col.data : col.data[j].d = 1 THEN col.data[i]
        ELSE fround(col.data[i])]

\* A categorical column given as label strings, the case of C18.
GivenAsLabels(col) == col.dtype = "categorical" /\ AllOf(col.data, "str")

(* C14: for a valid input and any column of it, reading the column back    *)
(* from the packed container gives the original values: the same labels    *)
(* for categorical indices, the same integers, the float32 roundings of    *)
(* the numbers.  Columns given as label strings are left to C18, so that   *)
(* what is stated here does not rest on their encoding.                    *)
C14_RoundTrip ==
    \A i \in 1..MaxColumns :
        (Packed /\ ReadOf(i) /\ ValidColumn(InputColumn(i))
                /\ ~GivenAsLabels(InputColumn(i)))
            => output.ok /\ output.values = Original(InputColumn(i))

(* C15: in a packed header the byte ranges [offset, offset + 4 * length)   *)
(* of two distinct descriptors are disjoint and every range lies in the    *)
(* data region.                                                            *)
C15_OffsetsDoNotOverlap ==
    Packed =>
        LET cols == container.header.columns
            dataLength == container.totalLength - container.alignedDataStart
        IN /\ \A i \in DOMAIN cols :
                 cols[i].offset >= 0
                     /\ cols[i].offset + 4 * cols[i].length <= dataLength
           /\ \A i, j \in DOMAIN cols :
                 i # j => \/ cols[i].offset + 4 * cols[i].length <= cols[j].offset
                          \/ cols[j].offset + 4 * cols[j].length <= cols[i].offset

\* A container of two columns that both hold elements.
C15_TwoColumnsPacked ==
    /\ Packed
    /\ Len(container.header.columns) = 2
    /\ \A i \in DOMAIN container.header.columns :
          container.header.columns[i].length > 0

(* C16: the padding the packer puts after a header of N bytes is between   *)
(* 0 and 3 and makes 4 + N + padding a multiple of 4.                      *)
C16_PaddingAligns ==
    Packed =>
        LET N == container.headerLength
            pad == container.alignedDataStart - (4 + N)
        IN pad >= 0 /\ pad <= 3 /\ (4 + N + pad) % 4 = 0

\* A header whose length is a multiple of 4 already: no padding is due.
C16_HeaderAlreadyAligned ==
    Packed /\ container.headerLength % 4 = 0

(* C17: the data-region start the reader computes from the length word is  *)
(* the offset the packer wrote the first buffer at, and the elements read  *)
(* for a descriptor are the ones the packer wrote for its column, at the   *)
(* packer's data start plus the descriptor's offset.                       *)
C17_ReaderFindsWhatPackerWrote ==
    Packed =>
        /\ readAlignedDataStart(container.headerLength) = container.alignedDataStart
        /\ \A i \in 1..MaxColumns :
              ReadOf(i) =>
                  LET column == container.header.columns[i]
                      first == container.alignedDataStart + column.offset
                  IN /\ output.ok
                     /\ output.elements =
                           [k \in 1..column.length |->
                               container.words[first + 4 * (k - 1)].v]

\* A column with elements has been read from a container with padding.
C17_ColumnReadBehindPadding ==
    /\ Packed
    /\ container.alignedDataStart > 4 + container.headerLength
    /\ output.kind = "column" /\ output.ok /\ output.elements # <<>>

\* The distinct labels of data in first-seen order.
RECURSIVE FirstSeen(_, _)
FirstSeen(data, seen) ==
    IF data = <<>> THEN seen
    ELSE FirstSeen(Tail(data),
                   IF \E k \in DOMAIN seen : seen[k] = Head(data).s
                   THEN seen ELSE Append(seen, Head(data).s))

(* C18: packing a categorical column of label strings gives a descriptor   *)
(* whose categories are the distinct labels in first-seen order and        *)
(* indices that map each value to its label.                               *)
C18_CategoricalLabelsAreIndexed ==
    Packed =>
        \A i \in DOMAIN container.header.columns :
            LET col == InputColumn(i)
                labels == FirstSeen(col.data, <<>>)
            IN GivenAsLabels(col)
               => /\ container.header.columns[i].categories = labels
                  /\ \A k \in DOMAIN col.data :
                        labels[Written[i][k].v.n + 1] = col.data[k].s

(* C20: from a container whose header carries a format version other than  *)
(* the packer's, the reader returns no header and no column: every read    *)
(* fails.                                                                  *)
C20_UnknownVersionIsRejected ==
    (Packed /\ container.header.version # 1 /\ output.kind # "none")
        => ~output.ok

----------------------------------------------------------------------------
(* The packer: failures, determinism, layout and storage types *)

\* The structure document names a category key the data has no entry for.
MissingCategory ==
    \E i \in DOMAIN input.structure :
        \A k \in DOMAIN input.data : input.data[k].key # input.structure[i].key

\* The array columns of the data, as (categoryKey, name) in data order.
RECURSIVE ArrayColumns(_)
ArrayColumns(data) ==
    IF data = <<>> THEN <<>>
    ELSE LET columns == Head(data).columns
             kept == SelectSeq([j \in DOMAIN columns |->
                                   [categoryKey |-> Head(data).key,
                                    name |-> columns[j].name,
                                    isArray |-> columns[j].isArray]],
                               LAMBDA c : c.isArray)
         IN [j \in DOMAIN kept |->
                [categoryKey |-> kept[j].categoryKey, name |-> kept[j].name]]
            \o ArrayColumns(Tail(data))

(* C21: the packer produces no artifact when the structure document names  *)
(* a category key the data has no entry for; a column whose data is not an *)
(* array is skipped and the artifact holds the other columns.              *)
C21_MissingCategoryFails ==
    /\ MissingCategory => ~Packed
    /\ Packed =>
          [i \in DOMAIN container.header.columns |->
              [categoryKey |-> container.header.columns[i].categoryKey,
               name |-> container.header.columns[i].name]]
          = ArrayColumns(input.data)

RECURSIVE BytesBefore(_, _)
BytesBefore(cols, n) ==
    IF n = 0 THEN 0 ELSE BytesBefore(cols, n - 1) + 4 * cols[n].length

(* C27: each descriptor's offset is the sum of the byte lengths of the     *)
(* descriptors before it, its length is the element count of its column,   *)
(* and the data region holds the columns' buffers in header order, one     *)
(* after the other, and nothing else.  (Stated of the container as it     *)
(* leaves the packer, before anything is read from it.)                    *)
C27_ColumnsAreTightlyPacked ==
    (Packed /\ output = NoOutput) =>
        LET cols == container.header.columns
            written == Written
        IN
        /\ \A i \in DOMAIN cols :
              LET first == container.alignedDataStart + cols[i].offset IN
              /\ cols[i].offset = BytesBefore(cols, i - 1)
              /\ cols[i].length = Len(InputColumn(i).data)
              /\ \A k \in 1..cols[i].length :
                    first + 4 * (k - 1) \in DOMAIN container.words
              /\ written[i] = [k \in 1..cols[i].length |->
                                  container.words[first + 4 * (k - 1)]]
        /\ DOMAIN container.words =
              {container.alignedDataStart + 4 * (k - 1) :
                  k \in 1..(BytesBefore(cols, Len(cols)) \div 4)}
        /\ container.totalLength =
              container.alignedDataStart + BytesBefore(cols, Len(cols))

\* A column that holds elements lies behind another that does.
C27_ColumnBehindAnother ==
    /\ Packed
    /\ output = NoOutput
    /\ \E i \in DOMAIN container.header.columns :
          /\ container.header.columns[i].offset > 0
          /\ container.header.columns[i].length > 0

(* C28: a valid column declared integer or boolean is stored as int32      *)
(* holding its values (true as 1, false as 0), and one declared numeric is *)
(* stored as float32.                                                      *)
C28_DeclaredTypeDecidesStorage ==
    Packed =>
        \A i \in DOMAIN container.header.columns :
            LET col == InputColumn(i) IN
            ValidColumn(col) =>
                /\ col.dtype \in {"integer", "boolean"} =>
                      /\ container.header.columns[i].dtype = "int32"
                      /\ \A k \in DOMAIN col.data :
                            Written[i][k] =
                                [view |-> "int32", v |-> Num(col.data[k].n, 1)]
                /\ col.dtype = "numeric" =>
                      container.header.columns[i].dtype = "float32"

----------------------------------------------------------------------------
(* The worker's handler: what a request is answered with *)

\* In this step worker w is through with message m: the handler has run to
\* its end.
Finished(w, m) ==
    /\ workers[w].alive /\ workers'[w].alive
    /\ m \in Held(workers, w)
    /\ m \notin Held(workers', w)

\* The responses worker w posts in this step.
Answers(w) ==
    {workers'[w].outbox[i] :
        i \in DOMAIN workers'[w].outbox \ DOMAIN workers[w].outbox}

\* The base64 string the handler of m decompresses, or has been
\* decompressing, in a worker that has no buffer yet.
Decompressing(w, m) ==
    IF \E h \in workers[w].running : h.msg = m
    THEN (CHOOSE h \in workers[w].running : h.msg = m).base64Data
    ELSE IF workers[w].buffer = 0 THEN workers[w].payload
    ELSE ""

(* C24: a loadHeader request that has a well-formed payload to decompress  *)
(* is answered with the header whenever DecompressionStream or the library *)
(* is available, and with an error response when neither is.              *)
C24_FallsBackToLibrary ==
    [][\A w \in DOMAIN workers : \A m \in Held(workers, w) :
          (Finished(w, m) /\ m.type = "loadHeader"
                /\ Decompressing(w, m) = "good")
          => IF decompressors = {}
             THEN \E e \in Answers(w) : e.type = "error" /\ e.id = m.id
             ELSE \E e \in Answers(w) :
                     e.type = "header" /\ e.header /\ e.id = m.id]_vars

RequestTypes == {"loadHeader", "loadColumn", "loadCategory"}

(* C26: a loadHeader, loadColumn or loadCategory message handled while no   *)
(* payload is set is answered with an error response and leaves payload,   *)
(* buffer and header as they are; and no step of a worker takes back a     *)
(* payload, a buffer or a header it has.                                   *)
C26_WorkerStateMovesForward ==
    [][\A w \in DOMAIN workers :
          /\ (Handles(w) /\ Head(workers[w].inbox).type \in RequestTypes
                  /\ workers[w].payload = "")
             => /\ \E e \in Answers(w) :
                      e.type = "error" /\ e.id = Head(workers[w].inbox).id
                /\ workers'[w].payload = workers[w].payload
                /\ workers'[w].buffer = workers[w].buffer
                /\ workers'[w].header = workers[w].header
                /\ workers'[w].running = workers[w].running
          /\ (workers[w].alive /\ workers'[w].alive)
             => /\ workers[w].payload # "" => workers'[w].payload # ""
                /\ workers[w].buffer # 0 => workers'[w].buffer # 0
                /\ workers[w].header => workers'[w].header]_vars

\* The column or category m asks for cannot be extracted: no descriptor of
\* the header matches, or one that does carries an unknown dtype tag.
NotExtractable(m) ==
    LET asked == IF m.type = "loadColumn"
                 THEN findColumn(m.columnName, m.categoryKey)
                 ELSE {k \in HeaderColumns : k.categoryKey = m.categoryKey}
    IN /\ m.type \in LoadOps
       /\ asked = {} \/ \E col \in asked : col.dtype \notin SupportedDtypes

----------------------------------------------------------------------------
(* The facade's caches *)

\* This step is a call of destroy().
Destroys ==
    /\ Len(calls') > Len(calls)
    /\ calls'[Len(calls')].op = "destroy"

\* In this step the main thread dispatches a response of type `type` that
\* names `key` and carries `data`.
Delivers(type, key, data) ==
    \E w \in DOMAIN workers :
        /\ workers[w].alive
        /\ workers[w].outbox # <<>>
        /\ workers'[w].outbox = Tail(workers[w].outbox)
        /\ LET e == Head(workers[w].outbox) IN
           /\ e.type = type
           /\ e.data = data
           /\ key = IF type = "columnData"
                    THEN cacheKey(e.categoryKey, e.columnName)
                    ELSE e.categoryKey

(* C30: in every step that is not a call of destroy(), an entry of         *)
(* columnCache or categoryCache stays, with the buffer it had; and an      *)
(* entry that appears holds the data of a columnData (categoryData)        *)
(* response for its key, dispatched in that step.                          *)
C30_CachesOnlyGrow ==
    [][~Destroys =>
          /\ \A k \in DOMAIN columnCache :
                MapHas(columnCache', k) /\ columnCache'[k] = columnCache[k]
          /\ \A k \in DOMAIN categoryCache :
                MapHas(categoryCache', k)
                    /\ categoryCache'[k] = categoryCache[k]
          /\ \A k \in DOMAIN columnCache' \ DOMAIN columnCache :
                Delivers("columnData", k, columnCache'[k])
          /\ \A k \in DOMAIN categoryCache' \ DOMAIN categoryCache :
                Delivers("categoryData", k, categoryCache'[k])]_vars

\* Both caches hold an entry, and a later call for the cached column was
\* served from the cache.
C30_BothCachesFilled ==
    /\ columnCache # EmptyMap
    /\ categoryCache # EmptyMap
    /\ \E i \in DOMAIN calls :
          /\ calls[i].op = "loadColumn"
          /\ calls[i].st = "resolved"
          /\ calls[i].w = 0

----------------------------------------------------------------------------
(* Batch operations: what their promises do *)

\* The calls made by a batch call, as opposed to those made on demand.
BatchMembers ==
    UNION {{batches[b].members[i] : i \in DOMAIN batches[b].members} :
              b \in DOMAIN batches}

Preloads == {"preloadCommonColumns", "preloadCriticalData"}

\* No promise returned by a preload operation is rejected.
PreloadNeverRejects ==
    \A b \in DOMAIN batches :
        calls[b].op \in Preloads => calls[b].st # "rejected"

\* No on-demand loadColumn for a column of the header that the workers can
\* extract, made on an initialized loader, is rejected.
OnDemandLoadsSucceed ==
    \A i \in DOMAIN calls \ BatchMembers :
        (/\ calls[i].op = "loadColumn"
         /\ calls[i].w # 0 \/ calls[i].awaits # 0
         /\ findColumn(calls[i].columnName, calls[i].categoryKey) # {}
         /\ extractable(findColumn(calls[i].columnName, calls[i].categoryKey)))
        => calls[i].st # "rejected"

(* C22: the promise returned by preloadCommonColumns() or by               *)
(* preloadCriticalData() is never rejected, whether init or a column load  *)
(* of the preload fails; and with preloads running or failed, an on-demand *)
(* loadColumn for an existing column is not rejected.                      *)
C22_PreloadNeverRejects ==
    PreloadNeverRejects /\ OnDemandLoadsSucceed

\* The loadColumn message of member call m sits in the inbox of a worker.
Posts(m) ==
    \E w \in DOMAIN workers' : \E k \in DOMAIN workers'[w].inbox :
        /\ workers'[w].inbox[k].type = "loadColumn"
        /\ workers'[w].inbox[k].columnName = calls'[m].columnName
        /\ workers'[w].inbox[k].categoryKey = calls'[m].categoryKey

(* C23: the step that calls loadColumns(requests) posts a loadColumn       *)
(* message for every request that is neither cached nor pending; the       *)
(* promise it returns is settled only when every one of its loadColumn     *)
(* calls has settled; and it resolves with their results in the order of   *)
(* the requests.                                                            *)
C23_LoadColumnsWaitsForAll ==
    [][\A b \in DOMAIN batches' :
          calls'[b].op = "loadColumns" =>
            LET members == batches'[b].members IN
            /\ (b \notin DOMAIN batches /\ ~notInitialized(State)) =>
                  \A i \in DOMAIN members :
                      LET key == cacheKey(calls'[members[i]].categoryKey,
                                          calls'[members[i]].columnName)
                      IN (~MapHas(columnCache, key)
                              /\ ~MapHas(pendingRequests, key))
                         => Posts(members[i])
            /\ calls'[b].st # "pending" =>
                  \A i \in DOMAIN members : calls'[members[i]].st # "pending"
            /\ calls'[b].st = "resolved" =>
                  batches'[b].results =
                      [i \in DOMAIN members |-> calls'[members[i]].res]]_vars

----------------------------------------------------------------------------
(* The reader: what serving a category touches *)

\* The bytes of the data region that belong to the descriptors of category
\* key, as the packer laid them out.
BytesOf(key) ==
    UNION {LET first == container.alignedDataStart
                            + container.header.columns[i].offset
           IN first..(first + 4 * container.header.columns[i].length - 1) :
           i \in {j \in DOMAIN container.header.columns :
                     container.header.columns[j].categoryKey = key}}

\* The bytes a category read copied.
BytesCopied ==
    UNION {output.copies[i].range.from..(output.copies[i].range.to - 1) :
              i \in DOMAIN output.copies}

(* C31: a loadCategory served on a container copies exactly the byte       *)
(* ranges of the descriptors of the category asked for, one copy per       *)
(* descriptor, and no byte of a column of another category.                *)
C31_CategoryReadsOnlyItsBytes ==
    (Packed /\ output.kind = "category" /\ output.ok) =>
        /\ \A i \in DOMAIN output.copies :
              container.header.columns[i].categoryKey = output.categoryKey
        /\ BytesCopied = BytesOf(output.categoryKey)
        /\ \A key \in {"a", "b"} \ {output.categoryKey} :
              BytesCopied \cap BytesOf(key) = {}

\* Category a was read from a container that holds bytes of a and of b.
C31_ReadBesideAnotherCategory ==
    /\ Packed
    /\ output.kind = "category" /\ output.ok
    /\ output.categoryKey = "a"
    /\ BytesOf("a") # {}
    /\ BytesOf("b") # {}

----------------------------------------------------------------------------
(* The container: rows of a category *)

\* convertToLegacyCategory's num_rows for category key: the length of the
\* first column of the category, 0 when it has none.
numRows(hdr, key) ==
    IF categoryColumns(hdr, key) = {} THEN 0
    ELSE hdr.columns[findDescriptor(hdr,
             hdr.columns[CHOOSE i \in categoryColumns(hdr, key) :
                 \A j \in categoryColumns(hdr, key) : i <= j].name, key)].length

(* C32: in a packed container every descriptor of a category has the       *)
(* length of the category's first column, the row count the application    *)
(* derives for the category.                                               *)
C32_ColumnsOfACategoryHaveOneLength ==
    Packed =>
        \A i \in DOMAIN container.header.columns :
            container.header.columns[i].length =
                numRows(container.header,
                        container.header.columns[i].categoryKey)

----------------------------------------------------------------------------
(* The container: alignment of the columns *)

(* C33: in a container the packer produced, the absolute offset the reader *)
(* computes for every descriptor is a multiple of 4 and its range lies in  *)
(* the buffer, and the typed view of a column the header names is built    *)
(* without error.                                                          *)
C33_ColumnsAreAligned ==
    Packed =>
        /\ \A i \in DOMAIN container.header.columns :
              LET absoluteOffset ==
                      readAlignedDataStart(container.headerLength)
                          + container.header.columns[i].offset
              IN /\ absoluteOffset % 4 = 0
                 /\ absoluteOffset + 4 * container.header.columns[i].length
                       <= container.totalLength
        /\ (output.kind = "column" /\ output.index # 0) => output.ok
        /\ (output.kind = "category" /\ output.categoryKey # "zz"
                /\ categoryColumns(container.header, output.categoryKey) # {})
              => output.ok

\* A column behind another was read from a container whose header length
\* needed padding.
C33_ReadBehindPaddedHeader ==
    /\ Packed
    /\ (4 + container.headerLength) % 4 # 0
    /\ output.kind = "column" /\ output.ok
    /\ container.header.columns[output.index].offset > 0
    /\ container.header.columns[output.index].length > 0

----------------------------------------------------------------------------
(* The facade: keys of pendingRequests *)

(* C34: two different requests that went through pendingRequests (their    *)
(* calls found the loader initialized and the key not cached) never have   *)
(* the same key, and a call that waits on the pending promise of another   *)
(* call waits on one for its own request.                                  *)
C34_PendingKeysAreInjective ==
    \A i \in DOMAIN calls :
        (calls[i].op \in LoadOps /\ calls[i].awaits # 0) =>
            /\ \A j \in DOMAIN calls :
                  (calls[j].op \in LoadOps /\ calls[j].awaits # 0
                      /\ requestKey(calls[i]) = requestKey(calls[j]))
                  => SameRequest(calls[i], calls[j])
            /\ SameRequest(calls[i], calls[calls[i].awaits])

\* No key is in a cache and in pendingRequests at once.
CachedKeysAreNotPending ==
    \A key \in DOMAIN pendingRequests :
        ~MapHas(columnCache, key) /\ ~MapHas(categoryCache, key)

\* A key of pendingRequests stands for the unsettled promise of the call
\* that posted a request under that key.
PendingKeysAreUnsettled ==
    \A key \in DOMAIN pendingRequests :
        LET p == pendingRequests[key] IN
        /\ p \in DOMAIN calls
        /\ calls[p].op \in LoadOps
        /\ requestKey(calls[p]) = key
        /\ calls[p].st = "pending"

(* C35: in every state of the facade no key is both in a cache and in      *)
(* pendingRequests, every key of pendingRequests belongs to a request      *)
(* whose promise is unsettled, and so pendingRequests is empty when no     *)
(* request promise is unsettled.                                           *)
C35_PendingRequestsAreOutstanding ==
    /\ CachedKeysAreNotPending
    /\ PendingKeysAreUnsettled
    /\ (\A i \in DOMAIN calls :
            calls[i].op \in LoadOps => calls[i].st # "pending")
          => pendingRequests = EmptyMap

----------------------------------------------------------------------------
(* The facade: destroy() with requests in flight *)

\* The number of the last destroy() call (0: none).
LastDestroy(cs) ==
    LET ds == {i \in DOMAIN cs : cs[i].op = "destroy"}
    IN IF ds = {} THEN 0 ELSE CHOOSE i \in ds : \A j \in ds : j <= i

\* Load call c was pending when destroy() was called and is still pending.
InFlightAtDestroy(c) ==
    /\ c \in DOMAIN calls
    /\ calls[c].op \in LoadOps
    /\ calls[c].st = "pending"
    /\ c < LastDestroy(calls)

\* Every entry of the caches answers a request made after the last
\* destroy().
CachesHoldNoLateResponse ==
    /\ \A key \in DOMAIN columnCache :
          columnCache[key].id > LastDestroy(calls)
    /\ \A key \in DOMAIN categoryCache :
          categoryCache[key].id > LastDestroy(calls)

\* A load call made after a destroy(), before an init() called since has
\* resolved, throws.
ThrowsUntilInitialized ==
    \A n \in NewCalls :
        ( /\ calls'[n].op \in LoadOps
          /\ LastDestroy(calls) > 0
          /\ ~\E i \in DOMAIN calls :
                /\ i > LastDestroy(calls)
                /\ calls[i].op = "init"
                /\ calls[i].st = "resolved" )
        => calls'[n].st = "rejected" /\ calls'[n].w = 0

(* C36: a load call that is pending when destroy() is called eventually    *)
(* settles; no entry of the caches comes from a request made before the    *)
(* last destroy(); and after a destroy() loadColumn and loadCategory throw  *)
(* until an init() called since has resolved.                              *)
C36_DestroySettlesRequestsInFlight ==
    /\ \A c \in 1..MaxCalls : InFlightAtDestroy(c) ~> ~InFlightAtDestroy(c)
    /\ []CachesHoldNoLateResponse
    /\ [][ThrowsUntilInitialized]_vars

----------------------------------------------------------------------------
(* The facade: workers of failed init() calls *)

Alive(ws) == {w \in DOMAIN ws : ws[w].alive}

\* Every init() call made so far has settled.
InitsSettled ==
    \A i \in DOMAIN calls : calls[i].op = "init" => calls[i].st # "pending"

(* C37: the worker created by an init() call that was rejected is          *)
(* terminated or is the one the loader refers to; and an init() called     *)
(* when every earlier init() has settled, on a loader with at most one    *)
(* live worker, leaves at most one live worker.                            *)
C37_FailedInitLeavesNoWorker ==
    [][/\ \A i \in DOMAIN calls' :
             (calls'[i].op = "init" /\ calls'[i].st = "rejected"
                 /\ calls'[i].w \in Alive(workers'))
             => worker' = calls'[i].w
       /\ \A n \in NewCalls :
             (calls'[n].op = "init" /\ InitsSettled
                 /\ Cardinality(Alive(workers)) <= 1)
             => Cardinality(Alive(workers')) <= 1]_vars

----------------------------------------------------------------------------
(* The render command: renderReport of the cli and the build's             *)
(* injectPayloadPlugin, over the payload files they leave on disk          *)

MaxRuns == 3

\* The data and structure files a run is given: two data files of
\* different contents, one structure file.
RenderData ==
    { <<[key |-> "a", columns |->
            <<Column("x", "numeric", TRUE, <<Num(3, 2), Num(1, 10)>>, <<>>)>>]>>,
      <<[key |-> "a", columns |->
            <<Column("n", "integer", TRUE, <<Num(1, 1), Num(-3, 1)>>, <<>>)>>]>> }

RenderStructures == {<<[key |-> "a", name |-> "A"]>>}

\* compressToBinary(jsonPath, outputPath, structurePath): the contents
\* written to outputPath.
compressToBinary(data, structure) == packColumnaryBinary(data, structure)

\* The payload file renderReport hands to the build, and the files on disk
\* after "Handle payload file": with autoGenerate the file
\* qc-report-payload.bin of the data's directory, generated only when
\* fs.existsSync finds none there.  compressed is what compressToBinary
\* writes for the data and structure files of the run.
handlePayloadFile(fs, dataDir, compressed, autoGenerate) ==
    IF ~autoGenerate
    THEN [finalPayload |-> "", shouldCleanupPayload |-> FALSE, fs |-> fs]
    ELSE [finalPayload |-> dataDir,
          shouldCleanupPayload |-> TRUE,
          fs |-> IF fs[dataDir] = NoFile
                 THEN [fs EXCEPT ![dataDir] = compressed]
                 ELSE fs]

\* injectPayloadPlugin.generateBundle: the payload put into the script tag
\* (NoFile: the tag stays empty) and the files on disk afterwards.
generateBundle(fs, payloadPath, autoGenerate, compressed) ==
    IF payloadPath # "" /\ fs[payloadPath] # NoFile
    THEN [payloadContent |-> fs[payloadPath], fs |-> fs]
    ELSE IF autoGenerate /\ payloadPath # ""
    THEN [payloadContent |-> compressed,
          fs |-> [fs EXCEPT ![payloadPath] = compressed]]
    ELSE [payloadContent |-> NoFile, fs |-> fs]

\* "Clean up temporary payload only if it was auto-generated": the file is
\* unlinked unless it sits in the output's directory.
cleanUp(fs, handled, outputDir) ==
    IF /\ handled.shouldCleanupPayload
       /\ handled.finalPayload # ""
       /\ fs[handled.finalPayload] # NoFile
       /\ handled.finalPayload # outputDir
    THEN [fs EXCEPT ![handled.finalPayload] = NoFile]
    ELSE fs

\* renderReport(options) without --payload: the run as recorded and the
\* files on disk afterwards.  A build that fails throws "Render failed"
\* before the report is copied and before the clean-up.
renderReport(fs, dataDir, data, structure, compressed, outputDir, autoGenerate, buildOk) ==
    LET handled == handlePayloadFile(fs, dataDir, compressed, autoGenerate)
        bundle == generateBundle(handled.fs, handled.finalPayload, autoGenerate,
                                 compressed)
    IN IF buildOk
       THEN [run |-> [data |-> data, structure |-> structure,
                      output |-> outputDir, autoGenerate |-> autoGenerate,
                      rendered |-> TRUE, payload |-> bundle.payloadContent],
             fs |-> cleanUp(bundle.fs, handled, outputDir)]
       ELSE [run |-> [data |-> data, structure |-> structure,
                      output |-> outputDir, autoGenerate |-> autoGenerate,
                      rendered |-> FALSE, payload |-> NoFile],
             fs |-> handled.fs]

ProgramIdle ==
    UNCHANGED <<variant, document, worker, header, columnCache, categoryCache,
                pendingRequests, calls, batches, workers, decompressors,
                input, container, output>>

\* siqc render --data ... --structure ... --output ...
Render ==
    /\ Len(reports) < MaxRuns
    /\ \E dataDir \in Directories, data \in RenderData,
          structure \in RenderStructures, outputDir \in Directories,
          autoGenerate \in BOOLEAN, buildOk \in BOOLEAN :
          \E compressed \in {compressToBinary(data, structure)} :
              \E done \in {renderReport(files, dataDir, data, structure,
                                        compressed, outputDir, autoGenerate,
                                        buildOk)} :
                  /\ files' = done.fs
                  /\ reports' = Append(reports, done.run)
    /\ ProgramIdle
    /\ UNCHANGED <<qc, viewport>>

\* The loader, the worker and the packer at rest, for the tools that do
\* not touch them.
InitTools ==
    /\ variant = "module"
    /\ document = ""
    /\ worker = 0
    /\ header = FALSE
    /\ columnCache = EmptyMap
    /\ categoryCache = EmptyMap
    /\ pendingRequests = EmptyMap
    /\ calls = <<>>
    /\ batches = EmptyMap
    /\ workers = EmptyMap
    /\ decompressors = Decompressors
    /\ input = NoInput
    /\ container = NoContainer
    /\ output = NoOutput

InitRender == InitTools /\ ToolsIdle

NextRender == Render

SpecRender == InitRender /\ [][NextRender]_vars

\* C38: over any sequence of render runs without --payload, the payload
\* embedded in a run's report is the one compressed from the data and
\* structure files given to that run.
C38_ReportEmbedsItsOwnPayload ==
    \A i \in DOMAIN reports :
        (reports[i].rendered /\ reports[i].autoGenerate)
        => reports[i].payload
               = compressToBinary(reports[i].data, reports[i].structure)

----------------------------------------------------------------------------
(* The two counts of the cells that pass the QC filters:                   *)
(* calculateQcPassCells and getPassingCellIndices                          *)

MaxCells == 2

MaxFilters == 2

\* A cutoff of a filter: null, undefined (the property is absent) or a
\* number.
NullCutoff == [t |-> "null", n |-> 0]

UndefinedCutoff == [t |-> "undefined", n |-> 0]

Cutoff(n) == [t |-> "num", n |-> n]

Cutoffs == {NullCutoff, UndefinedCutoff, Cutoff(2)}

\* cutoff !== undefined && cutoff !== null
isSet(cutoff) == cutoff.t = "num"

\* FilterSettings: type, field, cutoffMin, cutoffMax.  "missing" is a field
\* the data has no column for.
FilterSettings ==
    [type : {"histogram", "bar"}, field : {"total_counts", "missing"},
     cutoffMin : Cutoffs, cutoffMax : Cutoffs]

FilterLists == UNION {[1..len -> FilterSettings] : len \in 0..MaxFilters}

\* data.cell_rna_stats: num_rows and a column total_counts of num_rows
\* values, or of one value less.
CellStats ==
    {[num_rows |-> MaxCells,
      columns |-> <<[name |-> "total_counts", data |-> values]>>] :
        values \in UNION {[1..len -> 1..3] : len \in (MaxCells - 1)..MaxCells}}

\* cellsData.columns.find / findIndex by name: the index of the first
\* column of that name, 0 when there is none.
findByName(columns, field) ==
    IF \E i \in DOMAIN columns : columns[i].name = field
    THEN CHOOSE i \in DOMAIN columns :
             /\ columns[i].name = field
             /\ \A j \in 1..(i - 1) : columns[j].name # field
    ELSE 0

\* values[i] < cutoffMin || values[i] > cutoffMax, for cell i counted from
\* 0; every comparison with the undefined values[i] beyond the column's
\* end is false.
failsCutoffs(values, i, cutoffMin, cutoffMax) ==
    \/ isSet(cutoffMin) /\ i + 1 \in DOMAIN values /\ values[i + 1] < cutoffMin.n
    \/ isSet(cutoffMax) /\ i + 1 \in DOMAIN values /\ values[i + 1] > cutoffMax.n

\* The loop body of calculateQcPassCells for one filter.
applyHistogramFilter(cellRnaData, passFilter, filterSettings) ==
    LET column == findByName(cellRnaData.columns, filterSettings.field)
    IN IF filterSettings.type # "histogram" THEN passFilter
       ELSE IF column = 0 THEN passFilter
       ELSE IF ~isSet(filterSettings.cutoffMin) /\ ~isSet(filterSettings.cutoffMax)
       THEN passFilter
       ELSE [i \in DOMAIN passFilter |->
                /\ passFilter[i]
                /\ ~failsCutoffs(cellRnaData.columns[column].data, i,
                                 filterSettings.cutoffMin,
                                 filterSettings.cutoffMax)]

RECURSIVE applyHistogramFilters(_, _, _)
applyHistogramFilters(cellRnaData, passFilter, cellRnaFilters) ==
    IF cellRnaFilters = <<>> THEN passFilter
    ELSE applyHistogramFilters(
             cellRnaData,
             applyHistogramFilter(cellRnaData, passFilter, Head(cellRnaFilters)),
             Tail(cellRnaFilters))

\* calculateQcPassCells(data, cellRnaFilters) for a defined data.
calculateQcPassCells(data, cellRnaFilters) ==
    LET numCells == data.cell_rna_stats.num_rows
        passFilter == applyHistogramFilters(
                          data.cell_rna_stats,
                          [i \in 0..(numCells - 1) |-> TRUE], cellRnaFilters)
    IN Cardinality({i \in DOMAIN passFilter : passFilter[i]})

\* The loop body of getPassingCellIndices for one filter.
applyFilter(cellsData, passingCellIndices, filter) ==
    LET columnIndex == findByName(cellsData.columns, filter.field)
    IN IF ~(isSet(filter.cutoffMin) \/ isSet(filter.cutoffMax))
       THEN passingCellIndices
       ELSE IF columnIndex = 0 THEN passingCellIndices
       ELSE {i \in passingCellIndices :
                ~failsCutoffs(cellsData.columns[columnIndex].data, i,
                              filter.cutoffMin, filter.cutoffMax)}

RECURSIVE applyFilters(_, _, _)
applyFilters(cellsData, passingCellIndices, cellFilters) ==
    IF cellFilters = <<>> THEN passingCellIndices
    ELSE applyFilters(cellsData,
                      applyFilter(cellsData, passingCellIndices, Head(cellFilters)),
                      Tail(cellFilters))

\* getPassingCellIndices(cellsData, cellFilters)
getPassingCellIndices(cellsData, cellFilters) ==
    applyFilters(cellsData, 0..(cellsData.num_rows - 1), cellFilters)

InitQc ==
    /\ InitTools
    /\ files = [dir \in Directories |-> NoFile]
    /\ reports = <<>>
    /\ viewport = NoViewport
    /\ qc \in [kind : {"arguments"},
               data : [cell_rna_stats : CellStats],
               filters : FilterLists]

\* Both counts are taken of the same data and filters.
CountCells ==
    /\ qc.kind = "arguments"
    /\ qc' = [kind |-> "counted", data |-> qc.data, filters |-> qc.filters,
              passCells |-> calculateQcPassCells(qc.data, qc.filters),
              passingCellIndices |->
                  getPassingCellIndices(qc.data.cell_rna_stats, qc.filters)]
    /\ ProgramIdle
    /\ UNCHANGED <<files, reports, viewport>>

NextQc == CountCells

SpecQc == InitQc /\ [][NextQc]_vars

\* No cutoff of the filters is a number.
NoCutoffIsSet(filters) ==
    \A k \in DOMAIN filters :
        ~isSet(filters[k].cutoffMin) /\ ~isSet(filters[k].cutoffMax)

\* C39: calculateQcPassCells(data, filters) is the size of
\* getPassingCellIndices(data.cell_rna_stats, filters), and filters whose
\* cutoffs are all null or undefined exclude no cell.
C39_BothCountsAgree ==
    qc.kind = "counted"
    => /\ qc.passCells = Cardinality(qc.passingCellIndices)
       /\ NoCutoffIsSet(qc.filters)
          => qc.passCells = qc.data.cell_rna_stats.num_rows

----------------------------------------------------------------------------
(* The viewport loader: createViewportLoader and the ProgressiveWrapper    *)
(* that uses it                                                            *)

MaxInvocations == 4

\* The loadFn a loader is created with: ProgressiveWrapper's
\* async () => null when it has no dataLoader, or the dataLoader.
LoadFns == {"null", "dataLoader"}

\* What an invocation of loadFn settles with: async () => null resolves
\* with null; a dataLoader resolves with a value, with a value that is
\* falsy (0, "", false) or with null, or rejects.
Settlements(loadFn) ==
    IF loadFn = "null"
    THEN {[state |-> "resolved", result |-> "null"]}
    ELSE {[state |-> "resolved", result |-> "value"],
          [state |-> "resolved", result |-> "falsy"],
          [state |-> "resolved", result |-> "null"],
          [state |-> "rejected", result |-> "null"]}

\* !data()
falsy(data) == data \in {"null", "falsy"}

\* createViewportLoader(loadFn, options): the signals data, loading, error
\* and element, and the invocations of loadFn made so far.
createViewportLoader(loadFn) ==
    [kind |-> "loader", loadFn |-> loadFn, data |-> "null", loading |-> FALSE,
     error |-> FALSE, element |-> FALSE, invocations |-> <<>>]

InitViewport ==
    /\ InitTools
    /\ files = [dir \in Directories |-> NoFile]
    /\ reports = <<>>
    /\ qc = NoQc
    /\ viewport \in {createViewportLoader(loadFn) : loadFn \in LoadFns}

\* ref={setElement}: the effect creates the observer and observes the
\* element.
SetElement ==
    /\ viewport.kind = "loader"
    /\ ~viewport.element
    /\ viewport' = [viewport EXCEPT !.element = TRUE]
    /\ ProgramIdle
    /\ UNCHANGED <<files, reports, qc>>

\* The callback of the IntersectionObserver for one entry.
Intersection ==
    /\ viewport.kind = "loader"
    /\ viewport.element
    /\ \E isIntersecting \in BOOLEAN :
          IF /\ isIntersecting
             /\ falsy(viewport.data)
             /\ ~viewport.loading
             /\ Len(viewport.invocations) < MaxInvocations
          THEN viewport' =
                   [viewport EXCEPT
                       !.loading = TRUE,
                       !.invocations = Append(@, [state |-> "pending",
                                                  result |-> "null"])]
          ELSE UNCHANGED viewport
    /\ ProgramIdle
    /\ UNCHANGED <<files, reports, qc>>

\* The promise of the last invocation settles: .then sets data, .catch
\* sets error, .finally clears loading.
LoadSettles ==
    /\ viewport.kind = "loader"
    /\ viewport.invocations # <<>>
    /\ viewport.invocations[Len(viewport.invocations)].state = "pending"
    /\ \E settled \in Settlements(viewport.loadFn) :
          viewport' =
              [viewport EXCEPT
                  !.invocations[Len(viewport.invocations)] = settled,
                  !.data = IF settled.state = "resolved" THEN settled.result
                           ELSE @,
                  !.error = IF settled.state = "rejected" THEN TRUE ELSE @,
                  !.loading = FALSE]
    /\ ProgramIdle
    /\ UNCHANGED <<files, reports, qc>>

NextViewport ==
    \/ SetElement
    \/ Intersection
    \/ LoadSettles

SpecViewport == InitViewport /\ [][NextViewport]_vars

\* This step invokes loadFn.
Invoked ==
    /\ viewport.kind = "loader"
    /\ Len(viewport'.invocations) > Len(viewport.invocations)

NoneUnsettled ==
    \A i \in DOMAIN viewport.invocations :
        viewport.invocations[i].state # "pending"

NoneResolved ==
    \A i \in DOMAIN viewport.invocations :
        viewport.invocations[i].state # "resolved"

\* C40: loadFn is never invoked while an earlier invocation is unsettled,
\* and never again once an invocation has resolved, with null too.
C40_LoadFnIsInvokedOnce ==
    [][Invoked => (NoneUnsettled /\ NoneResolved)]_vars

====
